---- MODULE Spec2Model ----
(***************************************************************************)
(* The UTXO view of bcoin: Coins (per-transaction buckets of CoinEntry     *)
(* slots), UndoCoins (the undo stack) and CoinView (hash -> Coins map with *)
(* read-through to a backing store).                                       *)
(*                                                                         *)
(* CoinEntry objects are JavaScript objects shared by reference between a  *)
(* bucket slot and the undo stack, so they live in a heap and slots and    *)
(* stack items hold references (heap indices).                             *)
(***************************************************************************)
EXTENDS Integers, Sequences, FiniteSets, TLC

(* ------------------------------ bounds -------------------------------- *)

\* number of CoinEntry objects that may be allocated in one behaviour
MaxObjs == 2

\* number of backing-store lookups that may be issued in one behaviour
MaxLookups == 2

(* ----------------------------- JS values ------------------------------ *)

\* a null slot of Coins.outputs
NULL == 0

\* the value of an out-of-range array read / a bare `return;`
UNDEFINED == -1

\* Object.create(null)[undefined]: the property key an undefined hash
\* coerces to
UndefinedKey == "undefined"

NULL_HASH == "0000"

Front(s) == SubSeq(s, 1, Len(s) - 1)

Last(s) == s[Len(s)]

(* ------------------------- inputs of the model ------------------------ *)

Hashes == {"h1", "h2"}

Indices == {0, 1}

Outpoint(hash, index) == [hash |-> hash, index |-> index]

Outpoints == {Outpoint(h, i) : h \in Hashes, i \in Indices}

Heights == {1}

\* script.isUnspendable() of the script collaborator: a script is an opaque
\* value, "nulldata" stands for the unspendable ones
isUnspendable(script) == script = "nulldata"

Output(value, script) == [value |-> value, script |-> script]

\* the transactions handed to the view
TXS ==
  [ a |-> [hash |-> "h1", version |-> 1, coinbase |-> FALSE,
           outputs |-> <<Output(10, "pay"), Output(20, "pay")>>,
           inputs |-> <<Outpoint("h2", 0), Outpoint("h2", 1)>>],
    b |-> [hash |-> "h2", version |-> 2, coinbase |-> TRUE,
           outputs |-> <<Output(0, "nulldata"), Output(30, "pay")>>,
           inputs |-> <<Outpoint("h1", 0), Outpoint("h1", 0)>>],
    c |-> [hash |-> "h3", version |-> 1, coinbase |-> FALSE,
           outputs |-> <<Output(40, "pay"), Output(0, "nulldata")>>,
           inputs |-> <<Outpoint("h1", 1), Outpoint("h2", 1)>>] ]

TxNames == {"a", "b"}

\* with the transaction whose last output is unspendable
AllTxNames == {"a", "b", "c"}

\* the outpoints of their outputs
TxOutpoints ==
  {Outpoint(TXS[name].hash, i) : name \in AllTxNames, i \in Indices}

(* ------------------------------ CoinEntry ----------------------------- *)

\* entry.raw = null: no serialized bytes are cached (a cached Buffer holds at
\* least the five bytes of version and packed word, so it is never empty)
NoRaw == <<>>

CoinEntry ==
  [version |-> 1, height |-> -1, coinbase |-> FALSE,
   output |-> Output(0, "pay"), spent |-> FALSE, raw |-> NoRaw]

CoinEntry_fromTX(tx, index, height) ==
  [CoinEntry EXCEPT !.version = tx.version,
                    !.height = height,
                    !.coinbase = tx.coinbase,
                    !.output = tx.outputs[index + 1]]

\* CoinEntry.fromOutput: a fresh entry around an output
CoinEntry_fromOutput(output) == [CoinEntry EXCEPT !.output = output]

\* a Coin as addCoin receives it: hash, index and the fields of its entry
Coin(hash, index, output) ==
  [hash |-> hash, index |-> index, version |-> 1, height |-> -1,
   coinbase |-> FALSE, script |-> output.script, value |-> output.value]

\* CoinEntry.prototype.fromTX on an entry that exists: spent and raw stay
CoinEntry_injectTX(e, tx, index, height) ==
  [e EXCEPT !.version = tx.version,
            !.height = height,
            !.coinbase = tx.coinbase,
            !.output = tx.outputs[index + 1]]

\* CoinEntry.fromCoin: a fresh entry with the coin's fields
CoinEntry_fromCoin(coin) ==
  [CoinEntry EXCEPT !.version = coin.version,
                    !.height = coin.height,
                    !.coinbase = coin.coinbase,
                    !.output = Output(coin.value, coin.script)]

(* ------------------------- readers and writers ------------------------ *)
(* Bytes are sequences of numbers 0 .. 255.  A writer is the sequence      *)
(* written so far, a reader is [data, off].  The buffer utilities and the  *)
(* output compressor are collaborators of CoinEntry.                       *)

BufferReader(data) == [data |-> data, off |-> 0]

readU8(br) == [v |-> br.data[br.off + 1], br |-> [br EXCEPT !.off = @ + 1]]

writeU8(bw, v) == Append(bw, v)

\* four bytes, least significant first
writeU32(bw, w) ==
  bw \o <<w % 256, (w \div 256) % 256, (w \div 65536) % 256,
          (w \div 16777216) % 256>>

readU32(br) ==
  LET b(k) == br.data[br.off + k] IN
  [v |-> b(1) + 256 * b(2) + 65536 * b(3) + 16777216 * b(4),
   br |-> [br EXCEPT !.off = @ + 4]]

\* the variable-length integer of the wire format: one byte below 253,
\* the marker 253 and two bytes below 65536
sizeVarint(v) == IF v < 253 THEN 1 ELSE 3

writeVarint(bw, v) ==
  IF v < 253 THEN Append(bw, v)
  ELSE bw \o <<253, v % 256, (v \div 256) % 256>>

readVarint(br) ==
  LET b(k) == br.data[br.off + k] IN
  IF b(1) < 253 THEN [v |-> b(1), br |-> [br EXCEPT !.off = @ + 1]]
  ELSE [v |-> b(2) + 256 * b(3), br |-> [br EXCEPT !.off = @ + 3]]

\* the output compressor, an opaque codec: a value byte and a script byte
ScriptCode(script) == IF script = "pay" THEN 1 ELSE 2

ScriptOf(code) == IF code = 1 THEN "pay" ELSE "nulldata"

compress_size(output) == 2

compress_output(output, bw) ==
  bw \o <<output.value, ScriptCode(output.script)>>

decompress_output(br) ==
  [v |-> Output(br.data[br.off + 1], ScriptOf(br.data[br.off + 2])),
   br |-> [br EXCEPT !.off = @ + 2]]

(* ---------------------- CoinEntry serialization ----------------------- *)

\* 0x1fffffff: the 29 bits of the height field, and the code of height -1
HeightMask == 536870911

\* a | b of two non-negative 32-bit values
RECURSIVE BitOr(_, _)
BitOr(a, b) ==
  IF a = 0 THEN b
  ELSE IF b = 0 THEN a
  ELSE (IF a % 2 = 1 \/ b % 2 = 1 THEN 1 ELSE 0)
       + 2 * BitOr(a \div 2, b \div 2)

CoinEntry_getSize(e) ==
  IF e.raw # NoRaw THEN Len(e.raw)
  ELSE sizeVarint(e.version) + 4 + compress_size(e.output)

\* the 32-bit word toWriter packs height and coinbase into
CoinEntry_pack(height, coinbase) ==
  LET h == IF height = -1 THEN HeightMask ELSE height
      code == IF coinbase THEN 1 ELSE 0
  IN BitOr(h, code * 2^29)

\* toWriter without `if (this.coinbase) code |= 1`
CoinEntry_toWriter_nocoinbase(e, bw) ==
  IF e.raw # NoRaw THEN bw \o e.raw
  ELSE compress_output(e.output,
         writeU32(writeVarint(bw, e.version),
                  CoinEntry_pack(e.height, FALSE)))

\* toWriter with `if (this.spent) code |= 2` added
CoinEntry_toWriter_spentbit(e, bw) ==
  IF e.raw # NoRaw THEN bw \o e.raw
  ELSE compress_output(e.output,
         writeU32(writeVarint(bw, e.version),
                  BitOr(CoinEntry_pack(e.height, e.coinbase),
                        IF e.spent THEN 2^30 ELSE 0)))

CoinEntry_toWriter(e, bw) ==
  IF e.raw # NoRaw THEN bw \o e.raw
  ELSE compress_output(e.output,
         writeU32(writeVarint(bw, e.version),
                  CoinEntry_pack(e.height, e.coinbase)))

\* toRaw without `if (this.raw) return this.raw`
CoinEntry_toRaw_fresh(e) ==
  LET raw == CoinEntry_toWriter([e EXCEPT !.raw = NoRaw], <<>>) IN
  [e |-> [e EXCEPT !.raw = raw], raw |-> raw]

\* returns [e, raw]: the entry with its bytes cached, and the bytes
CoinEntry_toRaw(e) ==
  IF e.raw # NoRaw THEN [e |-> e, raw |-> e.raw]
  ELSE LET raw == CoinEntry_toWriter(e, <<>>) IN
       [e |-> [e EXCEPT !.raw = raw], raw |-> raw]

\* fromReader without `if (height === 0x1fffffff) height = -1`
CoinEntry_unpack_nosentinel(word) ==
  [height |-> word % 2^29, coinbase |-> ((word \div 2^29) % 2) # 0]

\* the [height, coinbase] fromReader takes out of the 32-bit word
CoinEntry_unpack(word) ==
  LET code == word \div 2^29
      h == word % 2^29
  IN [height |-> IF h = HeightMask THEN -1 ELSE h,
      coinbase |-> (code % 2) # 0]

\* fromReader reading the version without keeping it
CoinEntry_fromReader_noversion(br) ==
  LET ver == readVarint(br)
      word == readU32(ver.br)
      hc == CoinEntry_unpack(word.v)
      out == decompress_output(word.br)
  IN [e |-> [CoinEntry EXCEPT !.coinbase = hc.coinbase,
                              !.height = hc.height,
                              !.output = out.v],
      br |-> out.br]

\* returns [e, br]
CoinEntry_fromReader(br) ==
  LET ver == readVarint(br)
      word == readU32(ver.br)
      hc == CoinEntry_unpack(word.v)
      out == decompress_output(word.br)
  IN [e |-> [CoinEntry EXCEPT !.version = ver.v,
                              !.coinbase = hc.coinbase,
                              !.height = hc.height,
                              !.output = out.v],
      br |-> out.br]

CoinEntry_fromRaw(data) ==
  [CoinEntry_fromReader(BufferReader(data)).e EXCEPT !.raw = data]

(* -------------------------------- Coins ------------------------------- *)
(* A bucket is [hash, outputs]; outputs is the slot array, a sequence of   *)
(* heap references or NULL; slot i of the code is outputs[i + 1].          *)

Coins == [hash |-> NULL_HASH, outputs |-> <<>>]

RECURSIVE Pad(_, _)
Pad(outputs, index) ==
  IF Len(outputs) <= index THEN Pad(Append(outputs, NULL), index)
  ELSE outputs

\* Coins.add pushing the entry when the index is past the end, without
\* the null slots below it
Coins_add_nopad(outputs, index, coin) ==
  IF ~(index >= 0) THEN [err |-> "AssertionError", outputs |-> outputs]
  ELSE IF index >= Len(outputs)
       THEN [err |-> "none", outputs |-> Append(outputs, coin)]
       ELSE IF outputs[index + 1] # NULL
            THEN [err |-> "AssertionError", outputs |-> outputs]
            ELSE [err |-> "none",
                  outputs |-> [outputs EXCEPT ![index + 1] = coin]]

\* Coins.add without assert(!this.outputs[index])
Coins_add_noassert(outputs, index, coin) ==
  IF ~(index >= 0) THEN [err |-> "AssertionError", outputs |-> outputs]
  ELSE [err |-> "none",
        outputs |-> [Pad(outputs, index) EXCEPT ![index + 1] = coin]]

\* returns [err, outputs]: err is "AssertionError" when an assert failed
Coins_add(outputs, index, coin) ==
  IF ~(index >= 0) THEN [err |-> "AssertionError", outputs |-> outputs]
  ELSE LET padded == Pad(outputs, index) IN
       IF padded[index + 1] # NULL
       THEN [err |-> "AssertionError", outputs |-> padded]
       ELSE [err |-> "none",
             outputs |-> [padded EXCEPT ![index + 1] = coin]]

\* returns [err, heap, outputs]: the entry is allocated before add runs
Coins_addOutput(heap, outputs, index, output) ==
  IF isUnspendable(output.script)
  THEN [err |-> "AssertionError", heap |-> heap, outputs |-> outputs]
  ELSE LET a == Coins_add(outputs, index, Len(heap) + 1) IN
       [err |-> a.err, heap |-> Append(heap, CoinEntry_fromOutput(output)),
        outputs |-> a.outputs]

\* returns [err, heap, outputs]
Coins_addCoin(heap, outputs, coin) ==
  IF isUnspendable(coin.script)
  THEN [err |-> "AssertionError", heap |-> heap, outputs |-> outputs]
  ELSE LET a == Coins_add(outputs, coin.index, Len(heap) + 1) IN
       [err |-> a.err, heap |-> Append(heap, CoinEntry_fromCoin(coin)),
        outputs |-> a.outputs]

\* Coins.has without its test of the slot against null
Coins_has_inrange(outputs, index) ==
  IF index >= Len(outputs) THEN FALSE
  ELSE TRUE

Coins_has(outputs, index) ==
  IF index >= Len(outputs) THEN FALSE
  ELSE outputs[index + 1] # NULL

\* Coins.isUnspent without its test of coin.spent
Coins_isUnspent_nospent(heap, outputs, index) ==
  IF index >= Len(outputs) THEN FALSE
  ELSE outputs[index + 1] # NULL

Coins_isUnspent(heap, outputs, index) ==
  IF index >= Len(outputs) THEN FALSE
  ELSE LET coin == outputs[index + 1] IN
       IF coin = NULL \/ heap[coin].spent THEN FALSE ELSE TRUE

Coins_get(outputs, index) ==
  IF index >= Len(outputs) THEN UNDEFINED
  ELSE outputs[index + 1]

\* Coins.spend without its test of coin.spent
Coins_spend_respend(heap, outputs, index) ==
  LET coin == Coins_get(outputs, index) IN
  IF coin = UNDEFINED \/ coin = NULL
  THEN [coin |-> UNDEFINED, heap |-> heap]
  ELSE [coin |-> coin, heap |-> [heap EXCEPT ![coin].spent = TRUE]]

\* returns [coin, heap]: coin is UNDEFINED when nothing was spent
Coins_spend(heap, outputs, index) ==
  LET coin == Coins_get(outputs, index) IN
  IF coin = UNDEFINED \/ coin = NULL \/ heap[coin].spent
  THEN [coin |-> UNDEFINED, heap |-> heap]
  ELSE [coin |-> coin, heap |-> [heap EXCEPT ![coin].spent = TRUE]]

\* Coins.cleanup dropping every null slot, not only the trailing ones
Coins_cleanup_compact(outputs) == SelectSeq(outputs, LAMBDA x : x # NULL)

RECURSIVE Coins_cleanup(_)
Coins_cleanup(outputs) ==
  IF Len(outputs) > 0 /\ outputs[Len(outputs)] = NULL
  THEN Coins_cleanup(Front(outputs))
  ELSE outputs

\* Coins.remove taking the slot out of the array (splice) instead of
\* setting it to null
Coins_remove_splice(outputs, index) ==
  LET coin == Coins_get(outputs, index) IN
  IF coin = UNDEFINED \/ coin = NULL
  THEN [coin |-> NULL, outputs |-> outputs]
  ELSE [coin |-> coin,
        outputs |-> Coins_cleanup(SubSeq(outputs, 1, index)
                                  \o SubSeq(outputs, index + 2,
                                            Len(outputs)))]

\* returns [coin, outputs]: coin is NULL (for false) when nothing was there
Coins_remove(outputs, index) ==
  LET coin == Coins_get(outputs, index) IN
  IF coin = UNDEFINED \/ coin = NULL
  THEN [coin |-> NULL, outputs |-> outputs]
  ELSE [coin |-> coin,
        outputs |-> Coins_cleanup([outputs EXCEPT ![index + 1] = NULL])]

\* Coins.length counting the unspent entries instead of looking for the
\* highest one
RECURSIVE Coins_lengthFrom_count(_, _, _)
Coins_lengthFrom_count(heap, outputs, len) ==
  IF len > 0
  THEN (IF Coins_isUnspent(heap, outputs, len - 1) THEN 1 ELSE 0)
       + Coins_lengthFrom_count(heap, outputs, len - 1)
  ELSE 0

RECURSIVE Coins_lengthFrom(_, _, _)
Coins_lengthFrom(heap, outputs, len) ==
  IF len > 0 /\ ~Coins_isUnspent(heap, outputs, len - 1)
  THEN Coins_lengthFrom(heap, outputs, len - 1)
  ELSE len

Coins_length(heap, outputs) == Coins_lengthFrom(heap, outputs, Len(outputs))

Coins_isEmpty(heap, outputs) == Coins_length(heap, outputs) = 0

\* RawCoin.fromTX of ./rawcoin: the entry CoinEntry.fromTX makes
RawCoin_fromTX(tx, index, height) == CoinEntry_fromTX(tx, index, height)

\* Coins.fromTX leaving out the slot of an unspendable output
RECURSIVE Coins_fromTXLoop_nohole(_, _, _, _, _)
Coins_fromTXLoop_nohole(heap, outputs, tx, height, i) ==
  IF ~(i < Len(tx.outputs)) THEN [heap |-> heap, outputs |-> outputs]
  ELSE IF isUnspendable(tx.outputs[i + 1].script)
       THEN Coins_fromTXLoop_nohole(heap, outputs, tx, height, i + 1)
       ELSE Coins_fromTXLoop_nohole(
              Append(heap, RawCoin_fromTX(tx, i, height)),
              Append(outputs, Len(heap) + 1), tx, height, i + 1)

\* the loop of Coins.fromTX from output i on; returns [heap, outputs]
RECURSIVE Coins_fromTXLoop(_, _, _, _, _)
Coins_fromTXLoop(heap, outputs, tx, height, i) ==
  IF ~(i < Len(tx.outputs)) THEN [heap |-> heap, outputs |-> outputs]
  ELSE IF isUnspendable(tx.outputs[i + 1].script)
       THEN Coins_fromTXLoop(heap, Append(outputs, NULL), tx, height, i + 1)
       ELSE Coins_fromTXLoop(Append(heap, RawCoin_fromTX(tx, i, height)),
                             Append(outputs, Len(heap) + 1),
                             tx, height, i + 1)

\* Coins.fromTX without its call of cleanup()
Coins_fromTX_nocleanup(heap, tx, height) ==
  LET r == Coins_fromTXLoop(heap, <<>>, tx, height, 0) IN
  [heap |-> r.heap, coins |-> [hash |-> tx.hash, outputs |-> r.outputs]]

\* returns [heap, coins]
Coins_fromTX(heap, tx, height) ==
  LET r == Coins_fromTXLoop(heap, <<>>, tx, height, 0) IN
  [heap |-> r.heap,
   coins |-> [hash |-> tx.hash, outputs |-> Coins_cleanup(r.outputs)]]

(* ------------------- dynamically typed arguments ---------------------- *)
(* addEntry is called with values of different JavaScript types, so its    *)
(* arguments carry a type tag.                                             *)

JSOutpoint(o) == [t |-> "outpoint", hash |-> o.hash, index |-> o.index]

JSString(v) == [t |-> "string", v |-> v]

JSNumber(v) == [t |-> "number", v |-> v]

\* a CoinEntry object that is already referenced from the heap
JSEntry(id) == [t |-> "entry", id |-> id]

\* a CoinEntry object nothing references yet (just decoded or constructed)
JSFresh(e) == [t |-> "fresh", e |-> e]

IsEntry(x) == x.t \in {"entry", "fresh"}

\* x.hash used as a property key: undefined coerces to "undefined"
HashKey(x) == IF x.t = "outpoint" THEN x.hash ELSE UndefinedKey

\* UndoCoins.push, which CoinView.spendFrom calls
UndoCoins_push(items, coin) == Append(items, coin)

(* ------------------------------- CoinView ----------------------------- *)
(* The mutable state of one view is s = [map, heap, items]: map is the    *)
(* hash -> Coins object, heap the CoinEntry objects, items the array of   *)
(* view.undo.                                                             *)

CoinView_has(map, hash) == hash \in DOMAIN map

CoinView_add(map, hash, coins) ==
  [k \in DOMAIN map \cup {hash} |-> IF k = hash THEN coins ELSE map[k]]

CoinView_remove(map, hash) ==
  IF ~CoinView_has(map, hash) THEN [val |-> "false", map |-> map]
  ELSE [val |-> "true", map |-> [k \in DOMAIN map \ {hash} |-> map[k]]]

\* returns [s, val, err]
CoinView_addTX(s, tx, height) ==
  LET r == Coins_fromTX(s.heap, tx, height) IN
  [s |-> [s EXCEPT !.heap = r.heap,
                   !.map = CoinView_add(s.map, tx.hash, r.coins)],
   val |-> "coins", err |-> "none"]

\* the loop of removeTX from slot i on: coin.spent = true throws on a null
\* slot; returns [heap, err]
RECURSIVE CoinView_removeTXLoop(_, _, _)
CoinView_removeTXLoop(heap, outputs, i) ==
  IF ~(i < Len(outputs)) THEN [heap |-> heap, err |-> "none"]
  ELSE LET coin == outputs[i + 1] IN
       IF coin = NULL THEN [heap |-> heap, err |-> "TypeError"]
       ELSE CoinView_removeTXLoop([heap EXCEPT ![coin].spent = TRUE],
                                  outputs, i + 1)

\* returns [s, val, err]; when the loop throws the bucket is not installed
\* and the entries made for it are referenced from nowhere
CoinView_removeTX(s, tx, height) ==
  LET r == Coins_fromTX(s.heap, tx, height)
      l == CoinView_removeTXLoop(r.heap, r.coins.outputs, 0)
  IN
  IF l.err # "none" THEN [s |-> s, val |-> "thrown", err |-> l.err]
  ELSE [s |-> [s EXCEPT !.heap = l.heap,
                        !.map = CoinView_add(s.map, tx.hash, r.coins)],
        val |-> "coins", err |-> "none"]

\* addEntry without its test of script.isUnspendable()
CoinView_addEntry_nodrop(s, prevout, coin) ==
  LET hash == HashKey(prevout)
      map1 == IF CoinView_has(s.map, hash) THEN s.map
              ELSE CoinView_add(s.map, hash, Coins)
      s1 == [s EXCEPT !.map = map1]
  IN
  IF ~IsEntry(coin)
  THEN [s |-> s1, val |-> "undefined", err |-> "TypeError"]
  ELSE LET e == IF coin.t = "fresh" THEN coin.e ELSE s.heap[coin.id] IN
       IF ~Coins_has(map1[hash].outputs, prevout.index)
       THEN LET heap1 == IF coin.t = "fresh" THEN Append(s.heap, e)
                         ELSE s.heap
                id == IF coin.t = "fresh" THEN Len(heap1) ELSE coin.id
                a == Coins_add(map1[hash].outputs, prevout.index, id)
            IN [s |-> [s1 EXCEPT !.heap = heap1,
                                 !.map[hash].outputs = a.outputs],
                val |-> IF a.err = "none" THEN "coins" ELSE "undefined",
                err |-> a.err]
       ELSE [s |-> s1, val |-> "coins", err |-> "none"]

\* addEntry without its test of coins.has(prevout.index)
CoinView_addEntry_overwrite(s, prevout, coin) ==
  LET hash == HashKey(prevout)
      map1 == IF CoinView_has(s.map, hash) THEN s.map
              ELSE CoinView_add(s.map, hash, Coins)
      s1 == [s EXCEPT !.map = map1]
  IN
  IF ~IsEntry(coin)
  THEN [s |-> s1, val |-> "undefined", err |-> "TypeError"]
  ELSE LET e == IF coin.t = "fresh" THEN coin.e ELSE s.heap[coin.id] IN
       IF isUnspendable(e.output.script)
       THEN [s |-> s1, val |-> "undefined", err |-> "none"]
       ELSE LET heap1 == IF coin.t = "fresh" THEN Append(s.heap, e)
                         ELSE s.heap
                id == IF coin.t = "fresh" THEN Len(heap1) ELSE coin.id
                a == Coins_add(map1[hash].outputs, prevout.index, id)
            IN [s |-> [s1 EXCEPT !.heap = heap1,
                                 !.map[hash].outputs = a.outputs],
                val |-> IF a.err = "none" THEN "coins" ELSE "undefined",
                err |-> a.err]

\* addEntry putting the coin in place of the entry the slot holds
CoinView_addEntry_replace(s, prevout, coin) ==
  LET hash == HashKey(prevout)
      map1 == IF CoinView_has(s.map, hash) THEN s.map
              ELSE CoinView_add(s.map, hash, Coins)
      s1 == [s EXCEPT !.map = map1]
  IN
  IF ~IsEntry(coin)
  THEN [s |-> s1, val |-> "undefined", err |-> "TypeError"]
  ELSE LET e == IF coin.t = "fresh" THEN coin.e ELSE s.heap[coin.id] IN
       IF isUnspendable(e.output.script)
       THEN [s |-> s1, val |-> "undefined", err |-> "none"]
       ELSE LET heap1 == IF coin.t = "fresh" THEN Append(s.heap, e)
                         ELSE s.heap
                id == IF coin.t = "fresh" THEN Len(heap1) ELSE coin.id
                a == Coins_add_noassert(map1[hash].outputs, prevout.index,
                                        id)
            IN [s |-> [s1 EXCEPT !.heap = heap1,
                                 !.map[hash].outputs = a.outputs],
                val |-> "coins", err |-> "none"]

\* returns [s, val, err]; val is "coins" or "undefined"
CoinView_addEntry(s, prevout, coin) ==
  LET hash == HashKey(prevout)
      map1 == IF CoinView_has(s.map, hash) THEN s.map
              ELSE CoinView_add(s.map, hash, Coins)
      s1 == [s EXCEPT !.map = map1]
  IN
  IF ~IsEntry(coin)
  THEN [s |-> s1, val |-> "undefined", err |-> "TypeError"]
  ELSE LET e == IF coin.t = "fresh" THEN coin.e ELSE s.heap[coin.id] IN
       IF isUnspendable(e.output.script)
       THEN [s |-> s1, val |-> "undefined", err |-> "none"]
       ELSE IF ~Coins_has(map1[hash].outputs, prevout.index)
            THEN LET heap1 == IF coin.t = "fresh" THEN Append(s.heap, e)
                              ELSE s.heap
                     id == IF coin.t = "fresh" THEN Len(heap1) ELSE coin.id
                     a == Coins_add(map1[hash].outputs, prevout.index, id)
                 IN [s |-> [s1 EXCEPT !.heap = heap1,
                                      !.map[hash].outputs = a.outputs],
                     val |-> IF a.err = "none" THEN "coins" ELSE "undefined",
                     err |-> a.err]
            ELSE [s |-> s1, val |-> "coins", err |-> "none"]

\* addCoin testing the script before it looks the bucket up: an unspendable
\* coin leaves the map as it was
CoinView_addCoin_dropfirst(s, coin) ==
  IF isUnspendable(coin.script)
  THEN [s |-> s, val |-> "undefined", err |-> "none"]
  ELSE LET map1 == IF CoinView_has(s.map, coin.hash) THEN s.map
                   ELSE CoinView_add(s.map, coin.hash, Coins)
           s1 == [s EXCEPT !.map = map1]
       IN
       IF ~Coins_has(map1[coin.hash].outputs, coin.index)
       THEN LET a == Coins_addCoin(s.heap, map1[coin.hash].outputs, coin) IN
            [s |-> [s1 EXCEPT !.heap = a.heap,
                              !.map[coin.hash].outputs = a.outputs],
             val |-> IF a.err = "none" THEN "coins" ELSE "undefined",
             err |-> a.err]
       ELSE [s |-> s1, val |-> "coins", err |-> "none"]

\* returns [s, val, err]
CoinView_addCoin(s, coin) ==
  LET map1 == IF CoinView_has(s.map, coin.hash) THEN s.map
              ELSE CoinView_add(s.map, coin.hash, Coins)
      s1 == [s EXCEPT !.map = map1]
  IN
  IF isUnspendable(coin.script)
  THEN [s |-> s1, val |-> "undefined", err |-> "none"]
  ELSE IF ~Coins_has(map1[coin.hash].outputs, coin.index)
       THEN LET a == Coins_addCoin(s.heap, map1[coin.hash].outputs, coin) IN
            [s |-> [s1 EXCEPT !.heap = a.heap,
                              !.map[coin.hash].outputs = a.outputs],
             val |-> IF a.err = "none" THEN "coins" ELSE "undefined",
             err |-> a.err]
       ELSE [s |-> s1, val |-> "coins", err |-> "none"]

\* returns [s, val, err]; addOutput has no return value
CoinView_addOutput(s, prevout, output) ==
  LET map1 == IF CoinView_has(s.map, prevout.hash) THEN s.map
              ELSE CoinView_add(s.map, prevout.hash, Coins)
      s1 == [s EXCEPT !.map = map1]
  IN
  IF isUnspendable(output.script)
  THEN [s |-> s1, val |-> "undefined", err |-> "none"]
  ELSE IF ~Coins_has(map1[prevout.hash].outputs, prevout.index)
       THEN LET a == Coins_addOutput(s.heap, map1[prevout.hash].outputs,
                                     prevout.index, output) IN
            [s |-> [s1 EXCEPT !.heap = a.heap,
                              !.map[prevout.hash].outputs = a.outputs],
             val |-> "undefined", err |-> a.err]
       ELSE [s |-> s1, val |-> "undefined", err |-> "none"]

\* CoinView.spendFrom without its undo.push
CoinView_spendFrom_nopush(s, hash, index) ==
  LET r == Coins_spend(s.heap, s.map[hash].outputs, index) IN
  IF r.coin = UNDEFINED
  THEN [s |-> s, val |-> "false", coin |-> UNDEFINED]
  ELSE [s |-> [s EXCEPT !.heap = r.heap], val |-> "true", coin |-> r.coin]

\* coins is the bucket stored under key hash; returns [s, val, coin]
CoinView_spendFrom(s, hash, index) ==
  LET r == Coins_spend(s.heap, s.map[hash].outputs, index) IN
  IF r.coin = UNDEFINED
  THEN [s |-> s, val |-> "false", coin |-> UNDEFINED]
  ELSE [s |-> [s EXCEPT !.heap = r.heap,
                        !.items = UndoCoins_push(s.items, r.coin)],
        val |-> "true", coin |-> r.coin]

CoinView_spendOutput(s, prevout) ==
  IF ~CoinView_has(s.map, prevout.hash)
  THEN [s |-> s, val |-> "false", coin |-> UNDEFINED]
  ELSE CoinView_spendFrom(s, prevout.hash, prevout.index)

\* returns [s, val, coin]; val is "false" or "entry"
CoinView_removeOutput(s, prevout) ==
  IF ~CoinView_has(s.map, prevout.hash)
  THEN [s |-> s, val |-> "false", coin |-> NULL]
  ELSE LET r == Coins_remove(s.map[prevout.hash].outputs, prevout.index) IN
       [s |-> [s EXCEPT !.map[prevout.hash].outputs = r.outputs],
        val |-> IF r.coin = NULL THEN "false" ELSE "entry",
        coin |-> r.coin]

CoinView_getEntry(map, prevout) ==
  IF ~CoinView_has(map, prevout.hash) THEN UNDEFINED
  ELSE Coins_get(map[prevout.hash].outputs, prevout.index)

CoinView_hasEntry(map, prevout) ==
  IF ~CoinView_has(map, prevout.hash) THEN FALSE
  ELSE Coins_has(map[prevout.hash].outputs, prevout.index)

(* --------------------------- read accessors --------------------------- *)
(* What an accessor returns is a tagged value; the accessors that can     *)
(* throw return [got, err].                                               *)

JSUndefined == [t |-> "undefined"]

JSNull == [t |-> "null"]

JSBoolean(v) == [t |-> "boolean", v |-> v]

JSOutput(output) == [t |-> "output", v |-> output]

JSCoin(coin) == [t |-> "coin", v |-> coin]

\* a slot as a value: an entry of the heap, or null
JSSlot(ref) == IF ref = NULL THEN JSNull ELSE JSEntry(ref)

CoinEntry_toOutput(e) == e.output

CoinEntry_toCoin(e, hash, index) ==
  [hash |-> hash, index |-> index, version |-> e.version,
   height |-> e.height, coinbase |-> e.coinbase,
   script |-> e.output.script, value |-> e.output.value]

\* this.outputs[index] for an index of any type: an object is no array
\* index, so the element is undefined
Coins_element(outputs, index) ==
  IF index.t = "number" /\ index.v < Len(outputs) THEN outputs[index.v + 1]
  ELSE UNDEFINED

\* index >= this.outputs.length: false for an object, which compares as NaN
Coins_pastEnd(outputs, index) ==
  index.t = "number" /\ index.v >= Len(outputs)

\* Coins.get for a tagged index
Coins_getValue(outputs, index) ==
  IF Coins_pastEnd(outputs, index) THEN JSUndefined
  ELSE LET coin == Coins_element(outputs, index) IN
       IF coin = UNDEFINED THEN JSUndefined ELSE JSSlot(coin)

\* returns [got, err]: calling toOutput on null or undefined throws
Coins_getOutput(heap, coins, index) ==
  IF Coins_pastEnd(coins.outputs, index)
  THEN [got |-> JSUndefined, err |-> "none"]
  ELSE LET coin == Coins_element(coins.outputs, index) IN
       IF coin = NULL \/ coin = UNDEFINED
       THEN [got |-> JSUndefined, err |-> "TypeError"]
       ELSE [got |-> JSOutput(CoinEntry_toOutput(heap[coin])),
             err |-> "none"]

\* returns [got, err]: calling toCoin on null or undefined throws
Coins_getCoin(heap, coins, index) ==
  IF Coins_pastEnd(coins.outputs, index)
  THEN [got |-> JSUndefined, err |-> "none"]
  ELSE LET coin == Coins_element(coins.outputs, index) IN
       IF coin = NULL \/ coin = UNDEFINED
       THEN [got |-> JSUndefined, err |-> "TypeError"]
       ELSE [got |-> JSCoin(CoinEntry_toCoin(heap[coin], coins.hash,
                                             index.v)),
             err |-> "none"]

\* getEntry as a value
CoinView_getEntryValue(s, prevout) ==
  IF ~CoinView_has(s.map, prevout.hash) THEN JSUndefined
  ELSE Coins_getValue(s.map[prevout.hash].outputs, JSNumber(prevout.index))

\* returns [got, err]; coins.getCoin is handed input.prevout itself
CoinView_getCoin(s, prevout) ==
  IF ~CoinView_has(s.map, prevout.hash)
  THEN [got |-> JSUndefined, err |-> "none"]
  ELSE Coins_getCoin(s.heap, s.map[prevout.hash], JSOutpoint(prevout))

\* returns [got, err]
CoinView_getOutput(s, prevout) ==
  IF ~CoinView_has(s.map, prevout.hash)
  THEN [got |-> JSUndefined, err |-> "none"]
  ELSE Coins_getOutput(s.heap, s.map[prevout.hash], JSNumber(prevout.index))

\* getHeight answering the entry's height for an outpoint without entry
CoinView_getHeight_nodefault(s, prevout) ==
  LET coin == CoinView_getEntry(s.map, prevout) IN
  IF coin = UNDEFINED \/ coin = NULL THEN 0
  ELSE s.heap[coin].height

CoinView_getHeight(s, prevout) ==
  LET coin == CoinView_getEntry(s.map, prevout) IN
  IF coin = UNDEFINED \/ coin = NULL THEN -1
  ELSE s.heap[coin].height

CoinView_isCoinbase(s, prevout) ==
  LET coin == CoinView_getEntry(s.map, prevout) IN
  IF coin = UNDEFINED \/ coin = NULL THEN FALSE
  ELSE s.heap[coin].coinbase

(* ------------------------------ fast form ----------------------------- *)

\* getEntry(input) is truthy: the slot is in range and holds an entry
Cached(s, prevout) ==
  LET coin == CoinView_getEntry(s.map, prevout) IN
  coin # UNDEFINED /\ coin # NULL

\* the loop of getFastSize from input i on
RECURSIVE CoinView_getFastSizeLoop(_, _, _)
CoinView_getFastSizeLoop(s, inputs, i) ==
  IF ~(i < Len(inputs)) THEN 0
  ELSE (IF Cached(s, inputs[i + 1])
        THEN CoinEntry_getSize(
               s.heap[CoinView_getEntry(s.map, inputs[i + 1])])
        ELSE 0)
       + CoinView_getFastSizeLoop(s, inputs, i + 1)

\* getFastSize without the flag bytes (size += tx.inputs.length left out)
CoinView_getFastSize_noflags(s, inputs) ==
  CoinView_getFastSizeLoop(s, inputs, 0)

CoinView_getFastSize(s, inputs) ==
  Len(inputs) + CoinView_getFastSizeLoop(s, inputs, 0)

\* the loop of toFast from input i on; returns the writer
RECURSIVE CoinView_toFastLoop(_, _, _, _)
CoinView_toFastLoop(s, inputs, i, bw) ==
  IF ~(i < Len(inputs)) THEN bw
  ELSE IF ~Cached(s, inputs[i + 1])
       THEN CoinView_toFastLoop(s, inputs, i + 1, writeU8(bw, 0))
       ELSE CoinView_toFastLoop(s, inputs, i + 1,
              CoinEntry_toWriter(
                s.heap[CoinView_getEntry(s.map, inputs[i + 1])],
                writeU8(bw, 1)))

CoinView_toFast(s, inputs, bw) == CoinView_toFastLoop(s, inputs, 0, bw)

\* new CoinView()
CoinView == [map |-> <<>>, heap |-> <<>>, items |-> <<>>]

\* the loop of fromFast from input i on; returns the view
RECURSIVE CoinView_fromFastLoop(_, _, _, _)
CoinView_fromFastLoop(s, br, inputs, i) ==
  IF ~(i < Len(inputs)) THEN s
  ELSE LET flag == readU8(br) IN
       IF flag.v = 0
       THEN CoinView_fromFastLoop(s, flag.br, inputs, i + 1)
       ELSE LET coin == CoinEntry_fromReader(flag.br) IN
            CoinView_fromFastLoop(
              CoinView_addEntry(s, JSOutpoint(inputs[i + 1]),
                                JSFresh(coin.e)).s,
              coin.br, inputs, i + 1)

\* CoinView.prototype.fromFast(br, tx): decodes into the view s
CoinView_fromFast(s, br, inputs) == CoinView_fromFastLoop(s, br, inputs, 0)

(* ------------------------------ UndoCoins ----------------------------- *)

UndoCoins_isEmpty(items) == Len(items) = 0

\* items[items.length - 1]
UndoCoins_top(items) == IF Len(items) = 0 THEN UNDEFINED ELSE Last(items)

\* UndoCoins.apply taking the oldest entry (items.shift()) instead of the
\* newest
UndoCoins_apply_shift(s, outpoint) ==
  IF Len(s.items) = 0
  THEN [s |-> s, undo |-> UNDEFINED, err |-> "AssertionError"]
  ELSE LET undo == Head(s.items)
           r == CoinView_addEntry([s EXCEPT !.items = Tail(s.items)],
                                  JSString(outpoint.hash),
                                  JSNumber(outpoint.index))
       IN [s |-> r.s, undo |-> undo, err |-> r.err]

\* UndoCoins.apply without its assert(undo)
UndoCoins_apply_noassert(s, outpoint) ==
  LET undo == UndoCoins_top(s.items)
      r == CoinView_addEntry([s EXCEPT !.items = Front(s.items)],
                             JSString(outpoint.hash),
                             JSNumber(outpoint.index))
  IN [s |-> r.s, undo |-> undo, err |-> r.err]

\* returns [s, undo, err]: undo is the popped entry. The call passes three
\* arguments to the two-parameter addEntry: prevout receives outpoint.hash,
\* coin receives outpoint.index and the popped entry is dropped
UndoCoins_apply(s, outpoint) ==
  IF Len(s.items) = 0
  THEN [s |-> s, undo |-> UNDEFINED, err |-> "AssertionError"]
  ELSE LET undo == Last(s.items)
           r == CoinView_addEntry([s EXCEPT !.items = Front(s.items)],
                                  JSString(outpoint.hash),
                                  JSNumber(outpoint.index))
       IN [s |-> r.s, undo |-> undo, err |-> r.err]

\* the loop of UndoCoins.getSize from item i on
RECURSIVE UndoCoins_getSizeLoop(_, _)
UndoCoins_getSizeLoop(s, i) ==
  IF ~(i < Len(s.items)) THEN 0
  ELSE CoinEntry_getSize(s.heap[s.items[i + 1]])
       + UndoCoins_getSizeLoop(s, i + 1)

UndoCoins_getSize(s) == 4 + UndoCoins_getSizeLoop(s, 0)

\* the loop of UndoCoins.toRaw from item i on; returns the writer
RECURSIVE UndoCoins_toRawLoop(_, _, _)
UndoCoins_toRawLoop(s, i, bw) ==
  IF ~(i < Len(s.items)) THEN bw
  ELSE UndoCoins_toRawLoop(s, i + 1,
                           CoinEntry_toWriter(s.heap[s.items[i + 1]], bw))

UndoCoins_toRaw(s) == UndoCoins_toRawLoop(s, 0, writeU32(<<>>, Len(s.items)))

\* RawCoin.fromReader of coins/rawcoin: a record of the undo blob is an
\* encoded CoinEntry
RawCoin_fromReader(br) == CoinEntry_fromReader(br)

\* fromRaw putting every record it reads in front of the earlier ones
RECURSIVE UndoCoins_fromRawLoop_unshift(_, _, _, _)
UndoCoins_fromRawLoop_unshift(its, br, count, i) ==
  IF ~(i < count) THEN its
  ELSE LET coin == RawCoin_fromReader(br) IN
       UndoCoins_fromRawLoop_unshift(<<coin.e>> \o its, coin.br, count,
                                     i + 1)

\* the loop of UndoCoins.fromRaw from record i on; returns the items
RECURSIVE UndoCoins_fromRawLoop(_, _, _, _)
UndoCoins_fromRawLoop(its, br, count, i) ==
  IF ~(i < count) THEN its
  ELSE LET coin == RawCoin_fromReader(br) IN
       UndoCoins_fromRawLoop(Append(its, coin.e), coin.br, count, i + 1)

\* UndoCoins.fromRaw(data): the items of a new UndoCoins, as the entries
\* themselves
UndoCoins_fromRaw(data) ==
  LET count == readU32(BufferReader(data)) IN
  UndoCoins_fromRawLoop(<<>>, count.br, count.v, 0)

\* commit returning the bytes without `this.items.length = 0`
UndoCoins_commit_keep(s) == [raw |-> UndoCoins_toRaw(s), s |-> s]

\* returns [raw, s]
UndoCoins_commit(s) ==
  [raw |-> UndoCoins_toRaw(s), s |-> [s EXCEPT !.items = <<>>]]

(* --------------------------- backing store ---------------------------- *)
(* db.readCoin(prevout) is an external collaborator: it answers null or a  *)
(* CoinEntry decoded from the database.                                    *)

StoreAnswers == {"null", "pay", "nulldata"}

StoreCoin(prevout, script) ==
  [CoinEntry EXCEPT !.version = 1, !.height = 1,
                    !.output = Output(prevout.index + 1, script)]

(* ------------------------------- state -------------------------------- *)

VARIABLES
  map,       \* view.map: hash -> Coins
  heap,      \* the CoinEntry objects allocated so far
  items,     \* view.undo.items: references to CoinEntry objects
  call,      \* the readCoin / ensureInputs / spendInputs call in progress
  peer,      \* a second such call on the same view, parked at its yield
  ret,       \* the operation that ran last, its arguments and its result
  lookups,   \* history: number of db.readCoin calls per hash
  balance,   \* history: successful spends minus entries popped by apply,
             \* since creation / last commit
  hist,      \* history: the run of spends being undone
  fast,      \* the fast form last written by toFast and what fromFast
             \* decoded from it
  entry,     \* a CoinEntry held outside any view and its reserialization
  blob,      \* the undo blob last serialized from view.undo and what
             \* UndoCoins.fromRaw decoded from it
  got        \* the value the last read accessor returned

vars ==
  <<map, heap, items, call, peer, ret, lookups, balance, hist, fast, entry,
    blob, got, peer>>

View == [map |-> map, heap |-> heap, items |-> items]

\* op: the generator function running; inputs, i: the inputs it walks and
\* the position of its loop; pc: "wait" while db.readCoin is pending, "got"
\* when readCoin has resolved with r and the caller has not resumed yet,
\* "done" right after the call returned; found: the local of ensureInputs.
\* History: res, what readCoin met for each input it was called for
\* ("cached" or the store's answer); base, items.length when the call began.
NoCall ==
  [op |-> "none", tx |-> "", inputs |-> <<>>, i |-> 0, pc |-> "idle",
   r |-> "undefined", found |-> TRUE, res |-> <<>>, base |-> 0]

\* one owner, sequential calls: an operation starts when none is in progress
Idle == call.pc \in {"idle", "done"}

\* op, o: the operation and the outpoint it was called with (NoOutpoint when
\* it takes a transaction or nothing); val: the value returned ("pending"
\* while the call is suspended); err: the exception thrown; id: the CoinEntry
\* the operation returned, spent or popped
Ret(op, o, val, err, id) ==
  [op |-> op, o |-> o, val |-> val, err |-> err, id |-> id]

NoOutpoint == Outpoint("", 0)

\* a call that is not the one running: its record and what it returned last
Parked(c, r) == [call |-> c, ret |-> r]

\* what a slot reference denotes
Deref(h, ref) == IF ref = NULL THEN [null |-> TRUE] ELSE h[ref]

\* the entries of every bucket, with their spent flags
Contents(m, h) ==
  [k \in DOMAIN m |->
     [i \in 1 .. Len(m[k].outputs) |-> Deref(h, m[k].outputs[i])]]

NoHist == [snap |-> <<>>, ops |-> <<>>, n |-> 0, ok |-> FALSE]

\* a successful spend of outpoint o in the state (m, h, its)
HistSpend(o, m, h, its) ==
  IF Len(its) = 0
  THEN [snap |-> Contents(m, h), ops |-> <<o>>, n |-> 1, ok |-> TRUE]
  ELSE IF hist.ok THEN [hist EXCEPT !.ops = Append(@, o), !.n = @ + 1]
  ELSE NoHist

\* an apply at outpoint o that popped an entry
HistApply(o) ==
  IF hist.ok /\ Len(hist.ops) > 0 /\ o = Last(hist.ops)
  THEN [hist EXCEPT !.ops = Front(@)]
  ELSE NoHist

\* any other change of the view
HistDirty == NoHist

RECURSIVE SumOver(_, _)
SumOver(f, S) ==
  IF S = {} THEN 0
  ELSE LET x == CHOOSE y \in S : TRUE IN f[x] + SumOver(f, S \ {x})

TotalLookups == SumOver(lookups, Hashes)

\* per input, the entry the view holds for it (with its spent flag)
Snap(s, inputs) ==
  [i \in 1 .. Len(inputs) |->
     IF Cached(s, inputs[i])
     THEN s.heap[CoinView_getEntry(s.map, inputs[i])]
     ELSE [null |-> TRUE]]

\* tx: the transaction toFast was called with, size: what getFastSize
\* returned for it, raw: the bytes toFast wrote; dtx, view: the transaction
\* fromFast decoded raw against, and the view it returned.
\* History: src, the entries of the inputs when toFast ran
NoFast ==
  [tx |-> "", size |-> 0, raw |-> <<>>, src |-> <<>>, dtx |-> "",
   view |-> CoinView]

\* the entries on the undo stack, oldest first
StackEntries(s) == [i \in 1 .. Len(s.items) |-> s.heap[s.items[i]]]

\* raw: the bytes toRaw or commit returned last, size: what getSize
\* returned for them; items: the entries of the UndoCoins that fromRaw made
\* of raw, when read holds.  History: src, the stack when raw was written
NoBlob ==
  [raw |-> <<>>, size |-> 0, src |-> <<>>, items |-> <<>>, read |-> FALSE]

\* e: the entry; out: what reserializing it returned, when re holds
NoEntry == [e |-> CoinEntry, out |-> CoinEntry, re |-> FALSE]

Init ==
  /\ map = <<>>
  /\ heap = <<>>
  /\ items = <<>>
  /\ call = NoCall
  /\ peer = Parked(NoCall, Ret("new", NoOutpoint, "undefined", "none", 0))
  /\ ret = Ret("new", NoOutpoint, "undefined", "none", 0)
  /\ lookups = [h \in Hashes |-> 0]
  /\ balance = 0
  /\ hist = NoHist
  /\ fast = NoFast
  /\ entry = NoEntry
  /\ blob = NoBlob
  /\ got = JSUndefined

(* ------------------------- synchronous operations --------------------- *)

SetView(s) ==
  /\ map' = s.map
  /\ heap' = s.heap
  /\ items' = s.items

AddTX(name, height) ==
  /\ Idle
  /\ LET r == CoinView_addTX(View, TXS[name], height) IN
     /\ Len(r.s.heap) <= MaxObjs
     /\ SetView(r.s)
     /\ ret' = Ret("addTX", NoOutpoint, r.val, r.err, 0)
  /\ hist' = HistDirty
  /\ call' = NoCall
  /\ UNCHANGED <<lookups, balance>>
  /\ UNCHANGED <<fast, entry, blob, got, peer>>

RemoveTX(name, height) ==
  /\ Idle
  /\ LET r == CoinView_removeTX(View, TXS[name], height) IN
     /\ Len(r.s.heap) <= MaxObjs
     /\ SetView(r.s)
     /\ ret' = Ret("removeTX", NoOutpoint, r.val, r.err, 0)
  /\ hist' = HistDirty
  /\ call' = NoCall
  /\ UNCHANGED <<lookups, balance, fast, entry, blob, got, peer>>

SpendOutput(o) ==
  /\ Idle
  /\ LET r == CoinView_spendOutput(View, o) IN
     /\ SetView(r.s)
     /\ ret' = Ret("spendOutput", o, r.val, "none", r.coin)
     /\ balance' = IF r.val = "true" THEN balance + 1 ELSE balance
     /\ hist' = IF r.val = "true" THEN HistSpend(o, map, heap, items)
                ELSE hist
  /\ call' = NoCall
  /\ UNCHANGED lookups
  /\ UNCHANGED <<fast, entry, blob, got, peer>>

RemoveOutput(o) ==
  /\ Idle
  /\ LET r == CoinView_removeOutput(View, o) IN
     /\ SetView(r.s)
     /\ ret' = Ret("removeOutput", o, r.val, "none", r.coin)
     /\ hist' = IF r.val = "false" THEN hist ELSE HistDirty
  /\ call' = NoCall
  /\ UNCHANGED <<lookups, balance>>
  /\ UNCHANGED <<fast, entry, blob, got, peer>>

\* the scripts of the outputs, coins and entries callers add
Scripts == {"pay", "nulldata"}

\* the output a caller adds at an outpoint: its value differs from the
\* values of the transactions' outputs and of the store's coins
NewOutput(script) == Output(5, script)

\* the common part of addEntry, addCoin and addOutput, r being the result
Added(op, o, r) ==
  /\ Len(r.s.heap) <= MaxObjs
  /\ SetView(r.s)
  /\ ret' = Ret(op, o, r.val, r.err, 0)
  /\ hist' = IF r.s = View THEN hist ELSE HistDirty
  /\ call' = NoCall
  /\ UNCHANGED <<lookups, balance, fast, entry, blob, got, peer>>

AddEntry(o, script) ==
  /\ Idle
  /\ Added("addEntry", o,
           CoinView_addEntry(View, JSOutpoint(o),
                             JSFresh(CoinEntry_fromOutput(NewOutput(script)))))

AddCoin(o, script) ==
  /\ Idle
  /\ Added("addCoin", o,
           CoinView_addCoin(View, Coin(o.hash, o.index, NewOutput(script))))

AddOutput(o, script) ==
  /\ Idle
  /\ Added("addOutput", o, CoinView_addOutput(View, o, NewOutput(script)))

Apply(o) ==
  /\ Idle
  /\ LET r == UndoCoins_apply(View, o) IN
     /\ SetView(r.s)
     /\ ret' = Ret("apply", o, "undefined", r.err, r.undo)
     /\ balance' = IF r.undo = UNDEFINED THEN balance ELSE balance - 1
     /\ hist' = IF r.undo = UNDEFINED THEN hist ELSE HistApply(o)
  /\ call' = NoCall
  /\ UNCHANGED lookups
  /\ UNCHANGED <<fast, entry, blob, got, peer>>

Top ==
  /\ Idle
  /\ ret' = Ret("top", NoOutpoint,
                IF UndoCoins_top(items) = UNDEFINED THEN "undefined"
                ELSE "entry",
                "none", UndoCoins_top(items))
  /\ call' = NoCall
  /\ UNCHANGED <<map, heap, items, lookups, balance, hist>>
  /\ UNCHANGED <<fast, entry, blob, got, peer>>

\* commit returns the serialized items and empties the array; ret.id is
\* the count the blob starts with
Commit ==
  /\ Idle
  /\ items' = UndoCoins_commit(View).s.items
  /\ ret' = Ret("commit", NoOutpoint, "raw", "none", Len(items))
  /\ balance' = 0
  /\ hist' = HistDirty
  /\ call' = NoCall
  /\ UNCHANGED <<map, heap, lookups>>
  /\ blob' = [NoBlob EXCEPT !.raw = UndoCoins_commit(View).raw,
                            !.size = UndoCoins_getSize(View),
                            !.src = StackEntries(View)]
  /\ UNCHANGED <<fast, entry, got, peer>>

(* ------------------------ asynchronous operations --------------------- *)
(* readCoin, ensureInputs and spendInputs are generator functions run by   *)
(* co: they run synchronously up to a yield and resume when the awaited    *)
(* promise settles.                                                        *)

\* readCoin without its hasEntry test: it always asks the store
CoinView_readCoin_begin_nocache(m, prevout) == "wait"

\* readCoin up to its yield: "got" when it returns the cached bucket,
\* "wait" when it has issued db.readCoin(prevout)
CoinView_readCoin_begin(m, prevout) ==
  IF ~CoinView_hasEntry(m, prevout) THEN "wait" ELSE "got"

\* readCoin returning the bucket of the hash without calling addEntry
CoinView_readCoin_resume_noinsert(s, prevout, ans) ==
  IF ans = "null" THEN [s |-> s, val |-> "undefined", err |-> "none"]
  ELSE [s |-> s,
        val |-> IF CoinView_has(s.map, prevout.hash) THEN "coins"
                ELSE "undefined",
        err |-> "none"]

\* readCoin from its yield on, the store having answered ans;
\* returns [s, val, err]
CoinView_readCoin_resume(s, prevout, ans) ==
  IF ans = "null" THEN [s |-> s, val |-> "undefined", err |-> "none"]
  ELSE CoinView_addEntry(s, JSOutpoint(prevout),
                         JSFresh(StoreCoin(prevout, ans)))

\* ensureInputs returning false at the first input it cannot resolve
CoinView_ensureInputs_resume_early(inputs, i, found, r) ==
  IF r = "undefined" THEN [found |-> FALSE, i |-> i, val |-> "false"]
  ELSE [found |-> found, i |-> i + 1,
        val |-> IF i + 1 < Len(inputs) THEN "continue"
                ELSE IF found THEN "true" ELSE "false"]

\* ensureInputs reading the same input again when it was not resolved
CoinView_ensureInputs_resume_retry(inputs, i, found, r) ==
  IF r = "undefined" THEN [found |-> FALSE, i |-> i, val |-> "continue"]
  ELSE [found |-> found, i |-> i + 1,
        val |-> IF i + 1 < Len(inputs) THEN "continue"
                ELSE IF found THEN "true" ELSE "false"]

\* one turn of the loop of ensureInputs, readCoin having resolved with r;
\* returns [found, i, val]: val is "continue" while inputs remain
CoinView_ensureInputs_resume(inputs, i, found, r) ==
  LET found1 == IF r = "undefined" THEN FALSE ELSE found IN
  [found |-> found1, i |-> i + 1,
   val |-> IF i + 1 < Len(inputs) THEN "continue"
           ELSE IF found1 THEN "true" ELSE "false"]

\* spendInputs going on to the next input when spendFrom returns false
CoinView_spendInputs_resume_goon(s, inputs, i, r) ==
  IF r = "undefined"
  THEN [s |-> s, i |-> i, val |-> "false", coin |-> UNDEFINED]
  ELSE LET sp == CoinView_spendFrom(s, inputs[i + 1].hash,
                                    inputs[i + 1].index) IN
       [s |-> sp.s, i |-> i + 1,
        val |-> IF i + 1 < Len(inputs) THEN "continue" ELSE "true",
        coin |-> sp.coin]

\* one turn of the loop of spendInputs, readCoin having resolved with r;
\* returns [s, i, val, coin]
CoinView_spendInputs_resume(s, inputs, i, r) ==
  IF r = "undefined"
  THEN [s |-> s, i |-> i, val |-> "false", coin |-> UNDEFINED]
  ELSE LET sp == CoinView_spendFrom(s, inputs[i + 1].hash,
                                    inputs[i + 1].index) IN
       IF sp.val = "false"
       THEN [s |-> s, i |-> i, val |-> "false", coin |-> UNDEFINED]
       ELSE [s |-> sp.s, i |-> i + 1,
             val |-> IF i + 1 < Len(inputs) THEN "continue" ELSE "true",
             coin |-> sp.coin]

\* the call record after readCoin was entered for input c.i in map m
Enter(c, m) ==
  LET pc == CoinView_readCoin_begin(m, c.inputs[c.i + 1]) IN
  IF pc = "got"
  THEN [c EXCEPT !.pc = "got", !.r = "coins", !.res = Append(@, "cached")]
  ELSE [c EXCEPT !.pc = "wait"]

\* the outpoint the call record c is reading
Cur(c) == c.inputs[c.i + 1]

\* the bookkeeping of a db.readCoin issued by the call record c
Issue(c) ==
  IF c.pc = "wait"
  THEN /\ TotalLookups < MaxLookups
       /\ lookups' = [lookups EXCEPT ![Cur(c).hash] = @ + 1]
  ELSE UNCHANGED lookups

CallReadCoin(o) ==
  /\ Idle
  /\ LET c == Enter([NoCall EXCEPT !.op = "readCoin", !.inputs = <<o>>,
                                   !.base = Len(items)], map) IN
     /\ Issue(c)
     /\ call' = IF c.pc = "got" THEN [c EXCEPT !.pc = "done"] ELSE c
     /\ ret' = Ret("readCoin", o,
                   IF c.pc = "got" THEN "coins" ELSE "pending", "none", 0)
  /\ UNCHANGED <<map, heap, items, balance, hist>>
  /\ UNCHANGED <<fast, entry, blob, got, peer>>

CallInputs(op, name) ==
  /\ Idle
  /\ LET c == Enter([NoCall EXCEPT !.op = op, !.tx = name,
                                   !.inputs = TXS[name].inputs,
                                   !.base = Len(items)], map) IN
     /\ Issue(c)
     /\ call' = c
     /\ ret' = Ret(op, NoOutpoint, "pending", "none", 0)
  /\ UNCHANGED <<map, heap, items, balance, hist>>
  /\ UNCHANGED <<fast, entry, blob, got, peer>>

CallEnsureInputs(name) == CallInputs("ensureInputs", name)

CallSpendInputs(name) == CallInputs("spendInputs", name)

\* the backing store answers the pending db.readCoin
StoreAnswer(ans) ==
  /\ call.pc = "wait"
  /\ LET o == Cur(call)
         r == CoinView_readCoin_resume(View, o, ans)
         c == [call EXCEPT !.r = r.val, !.res = Append(@, ans)]
     IN
     /\ Len(r.s.heap) <= MaxObjs
     /\ SetView(r.s)
     /\ hist' = IF r.s = View THEN hist ELSE HistDirty
     /\ IF call.op = "readCoin" \/ r.err # "none"
        THEN /\ call' = [c EXCEPT !.pc = "done"]
             /\ ret' = Ret(call.op, ret.o, r.val, r.err, 0)
        ELSE /\ call' = [c EXCEPT !.pc = "got"]
             /\ ret' = Ret(call.op, ret.o, "pending", "none", 0)
  /\ UNCHANGED <<lookups, balance>>
  /\ UNCHANGED <<fast, entry, blob, got, peer>>

ResumeEnsureInputs ==
  /\ call.pc = "got"
  /\ call.op = "ensureInputs"
  /\ LET r == CoinView_ensureInputs_resume(call.inputs, call.i, call.found,
                                           call.r)
         c == [call EXCEPT !.found = r.found, !.i = r.i]
         n == IF r.val = "continue" THEN Enter(c, map)
              ELSE [c EXCEPT !.pc = "done"]
     IN
     /\ Issue(n)
     /\ call' = n
     /\ ret' = Ret("ensureInputs", NoOutpoint,
                   IF r.val = "continue" THEN "pending" ELSE r.val, "none", 0)
  /\ UNCHANGED <<map, heap, items, balance, hist>>
  /\ UNCHANGED <<fast, entry, blob, got, peer>>

ResumeSpendInputs ==
  /\ call.pc = "got"
  /\ call.op = "spendInputs"
  /\ LET r == CoinView_spendInputs_resume(View, call.inputs, call.i, call.r)
         c == [call EXCEPT !.i = r.i]
         n == IF r.val = "continue" THEN Enter(c, r.s.map)
              ELSE [c EXCEPT !.pc = "done"]
         spent == r.coin # UNDEFINED
     IN
     /\ Issue(n)
     /\ SetView(r.s)
     /\ call' = n
     /\ ret' = Ret("spendInputs", NoOutpoint,
                   IF r.val = "continue" THEN "pending" ELSE r.val, "none",
                   r.coin)
     /\ balance' = IF spent THEN balance + 1 ELSE balance
     /\ hist' = IF spent THEN HistSpend(Cur(call), map, heap, items)
                ELSE hist
  /\ UNCHANGED <<fast, entry, blob, got, peer>>

\* the inputs of the transaction the view has no entry for: a call for it
\* issues at most that many lookups
Uncached(m, name) ==
  {i \in 1 .. Len(TXS[name].inputs) :
     ~CoinView_hasEntry(m, TXS[name].inputs[i])}

\* a call is begun only when the lookups left cover the ones it can issue,
\* so that the cap on lookups stops no call half way
WithinLookups(name) ==
  TotalLookups + Cardinality(Uncached(map, name)) <= MaxLookups

BeginEnsureInputs(name) == WithinLookups(name) /\ CallEnsureInputs(name)

BeginSpendInputs(name) == WithinLookups(name) /\ CallSpendInputs(name)

\* the other call runs: calls on one view are coroutines of one thread and
\* give way to each other only where they wait for readCoin
Switch ==
  /\ peer # Parked(call, ret)
  /\ call' = peer.call
  /\ ret' = peer.ret
  /\ peer' = Parked(call, ret)
  /\ UNCHANGED <<map, heap, items, lookups, balance, hist>>
  /\ UNCHANGED <<fast, entry, blob, got>>

(* ----------------------- calls on a bucket ---------------------------- *)

\* the indices callers pass to a bucket
AnyIndices == Indices \cup {-1}

\* view.get(hash).add(index, new CoinEntry()): an entry add did not store
\* is not kept in the heap
CoinsAdd(hash, index) ==
  /\ Idle
  /\ CoinView_has(map, hash)
  /\ LET id == Len(heap) + 1
         a == Coins_add(map[hash].outputs, index, id)
     IN
     /\ heap' = IF a.err = "none" THEN Append(heap, CoinEntry) ELSE heap
     /\ Len(heap') <= MaxObjs
     /\ map' = [map EXCEPT ![hash].outputs = a.outputs]
     /\ ret' = Ret("coins.add", Outpoint(hash, index),
                   IF a.err = "none" THEN "undefined" ELSE "thrown",
                   a.err, id)
  /\ hist' = HistDirty
  /\ call' = NoCall
  /\ UNCHANGED <<items, lookups, balance, fast, entry, blob, got, peer>>

(* --------------------------- reading ---------------------------------- *)

\* the common part of the read accessors: r is [got, err]
Read(op, o, r) ==
  /\ Idle
  /\ got' = r.got
  /\ ret' = Ret(op, o, IF r.err = "none" THEN r.got.t ELSE "thrown",
                r.err, 0)
  /\ call' = NoCall
  /\ UNCHANGED <<map, heap, items, lookups, balance, hist, fast, entry,
                 blob, peer>>

\* an accessor that cannot throw
NoThrow(v) == [got |-> v, err |-> "none"]

\* view.get(hash).get(index)
CoinsGet(o) ==
  /\ CoinView_has(map, o.hash)
  /\ Read("coins.get", o,
          NoThrow(Coins_getValue(map[o.hash].outputs, JSNumber(o.index))))

\* view.get(hash).getOutput(index)
CoinsGetOutput(o) ==
  /\ CoinView_has(map, o.hash)
  /\ Read("coins.getOutput", o,
          Coins_getOutput(heap, map[o.hash], JSNumber(o.index)))

\* view.get(hash).getCoin(index)
CoinsGetCoin(o) ==
  /\ CoinView_has(map, o.hash)
  /\ Read("coins.getCoin", o,
          Coins_getCoin(heap, map[o.hash], JSNumber(o.index)))

GetEntry(o) ==
  Read("getEntry", o, NoThrow(CoinView_getEntryValue(View, o)))

GetCoin(o) == Read("getCoin", o, CoinView_getCoin(View, o))

GetOutput(o) == Read("getOutput", o, CoinView_getOutput(View, o))

GetHeight(o) ==
  Read("getHeight", o, NoThrow(JSNumber(CoinView_getHeight(View, o))))

IsCoinbase(o) ==
  Read("isCoinbase", o, NoThrow(JSBoolean(CoinView_isCoinbase(View, o))))

(* ------------------------- the undo blob ------------------------------ *)

\* size = view.undo.getSize(); raw = view.undo.toRaw()
UndoToRaw ==
  /\ Idle
  /\ blob' = [NoBlob EXCEPT !.raw = UndoCoins_toRaw(View),
                            !.size = UndoCoins_getSize(View),
                            !.src = StackEntries(View)]
  /\ ret' = Ret("toRaw", NoOutpoint, "raw", "none", Len(items))
  /\ call' = NoCall
  /\ UNCHANGED <<map, heap, items, lookups, balance, hist, fast, entry,
                 got, peer>>

\* UndoCoins.fromRaw(raw)
UndoFromRaw ==
  /\ Idle
  /\ blob.raw # <<>>
  /\ blob' = [blob EXCEPT !.items = UndoCoins_fromRaw(blob.raw),
                          !.read = TRUE]
  /\ ret' = Ret("fromRaw", NoOutpoint, "undo", "none", 0)
  /\ call' = NoCall
  /\ UNCHANGED <<map, heap, items, lookups, balance, hist, fast, entry,
                 got, peer>>

(* ----------------------------- fast form ------------------------------ *)

\* size = view.getFastSize(tx); raw = view.toFast(new StaticWriter(size),
\* tx).render()
ToFast(name) ==
  /\ Idle
  /\ fast' = [NoFast EXCEPT
                !.tx = name,
                !.size = CoinView_getFastSize(View, TXS[name].inputs),
                !.raw = CoinView_toFast(View, TXS[name].inputs, <<>>),
                !.src = Snap(View, TXS[name].inputs)]
  /\ ret' = Ret("toFast", NoOutpoint, "raw", "none", 0)
  /\ call' = NoCall
  /\ UNCHANGED <<map, heap, items, lookups, balance, hist, entry, blob,
                 got, peer>>

\* res = CoinView.fromFast(new BufferReader(raw), tx); the transactions of
\* the model have the same number of inputs, so raw can be read against
\* either
FromFast(name) ==
  /\ Idle
  /\ fast.tx # ""
  /\ fast' = [fast EXCEPT
                !.dtx = name,
                !.view = CoinView_fromFast(CoinView, BufferReader(fast.raw),
                                           TXS[name].inputs)]
  /\ ret' = Ret("fromFast", NoOutpoint, "view", "none", 0)
  /\ call' = NoCall
  /\ UNCHANGED <<map, heap, items, lookups, balance, hist, entry, blob,
                 got, peer>>

\* the fast forms handed to fromFast, by what they hold for each input: no
\* coin, or a coin with a script of that kind
FastForms ==
  {<<"none", "pay">>, <<"pay", "nulldata">>, <<"nulldata", "none">>,
   <<"pay", "pay">>}

\* a well-formed fast form: a flag byte per input and, after the flag 1,
\* the record of an entry
RECURSIVE FastBytes(_, _)
FastBytes(kinds, bw) ==
  IF kinds = <<>> THEN bw
  ELSE FastBytes(Tail(kinds),
         IF Head(kinds) = "none" THEN writeU8(bw, 0)
         ELSE CoinEntry_toWriter(CoinEntry_fromOutput(NewOutput(Head(kinds))),
                                 writeU8(bw, 1)))

\* view.fromFast(br, tx) on the view itself
FromFastInto(name, kinds) ==
  /\ Idle
  /\ Len(kinds) = Len(TXS[name].inputs)
  /\ LET s == CoinView_fromFast(View, BufferReader(FastBytes(kinds, <<>>)),
                                TXS[name].inputs) IN
     /\ Len(s.heap) <= MaxObjs
     /\ SetView(s)
     /\ hist' = IF s = View THEN hist ELSE HistDirty
  /\ ret' = Ret("fromFast", NoOutpoint, "view", "none", 0)
  /\ call' = NoCall
  /\ UNCHANGED <<lookups, balance, fast, entry, blob, got, peer>>

(* ------------------------- a CoinEntry by itself ---------------------- *)

\* heights within the 29 bits the format keeps for them
EntryHeights == {-1, 0, 1, 2^28, 2^29 - 2}

EntryFromOutput(script) ==
  /\ entry' = [NoEntry EXCEPT !.e = CoinEntry_fromOutput(NewOutput(script))]
  /\ UNCHANGED <<map, heap, items, call, ret, lookups, balance, hist, fast,
               blob, got, peer>>

EntryFromTX(name, index, height) ==
  /\ index >= 0 /\ index < Len(TXS[name].outputs)
  /\ entry' = [NoEntry EXCEPT !.e = CoinEntry_fromTX(TXS[name], index,
                                                     height)]
  /\ UNCHANGED <<map, heap, items, call, ret, lookups, balance, hist, fast,
               blob, got, peer>>

\* coin.spent = true, as Coins.spend sets it
EntrySpend ==
  /\ ~entry.e.spent
  /\ entry' = [entry EXCEPT !.e.spent = TRUE]
  /\ UNCHANGED <<map, heap, items, call, ret, lookups, balance, hist, fast,
               blob, got, peer>>

EntryToRaw ==
  /\ entry' = [entry EXCEPT !.e = CoinEntry_toRaw(entry.e).e]
  /\ UNCHANGED <<map, heap, items, call, ret, lookups, balance, hist, fast,
               blob, got, peer>>

\* reserialize(coin): raw = coin.toRaw(); entry = CoinEntry.fromRaw(raw);
\* entry.raw = null; return CoinEntry.fromRaw(entry.toRaw())
Reserialize ==
  /\ LET r == CoinEntry_toRaw(entry.e)
         decoded == [CoinEntry_fromRaw(r.raw) EXCEPT !.raw = NoRaw]
     IN entry' = [e |-> r.e,
                  out |-> CoinEntry_fromRaw(CoinEntry_toRaw(decoded).raw),
                  re |-> TRUE]
  /\ UNCHANGED <<map, heap, items, call, ret, lookups, balance, hist, fast,
               blob, got, peer>>

\* entry.fromTX(tx, index, height) on the entry held
EntryInjectTX(name, index, height) ==
  /\ index >= 0 /\ index < Len(TXS[name].outputs)
  /\ entry' = [entry EXCEPT !.e = CoinEntry_injectTX(@, TXS[name], index,
                                                     height)]
  /\ UNCHANGED <<map, heap, items, call, ret, lookups, balance, hist, fast,
               blob, got, peer>>

\* entry = CoinEntry.fromRaw(data), data being a copy of the record of the
\* entry held
EntryFromRaw ==
  /\ entry' = [NoEntry EXCEPT
                 !.e = CoinEntry_fromRaw(CoinEntry_toWriter(entry.e, <<>>))]
  /\ UNCHANGED <<map, heap, items, call, ret, lookups, balance, hist, fast,
               blob, got, peer>>

\* heights given to an entry that exists
LaterHeights == Heights \cup {-1}

\* what EntryEmit keeps of the bytes it got.  History: e, the entry they
\* came from, as toRaw left it
JSBytes(raw, size, written, e) ==
  [t |-> "bytes", raw |-> raw, size |-> size, written |-> written, e |-> e]

\* raw = entry.toRaw(); size = entry.getSize();
\* written = entry.toWriter(bw).render()
EntryEmit ==
  /\ LET r == CoinEntry_toRaw(entry.e) IN
     /\ entry' = [entry EXCEPT !.e = r.e]
     /\ got' = JSBytes(r.raw, CoinEntry_getSize(r.e),
                       CoinEntry_toWriter(r.e, <<>>), r.e)
  /\ UNCHANGED <<map, heap, items, call, ret, lookups, balance, hist, fast,
               blob, peer>>

(* --------------------------- specifications --------------------------- *)

\* every operation
Next ==
  \/ \E name \in TxNames, height \in Heights : AddTX(name, height)
  \/ \E o \in Outpoints : SpendOutput(o)
  \/ \E o \in Outpoints : RemoveOutput(o)
  \/ \E o \in Outpoints : Apply(o)
  \/ Top
  \/ Commit
  \/ \E o \in Outpoints : CallReadCoin(o)
  \/ \E name \in TxNames : CallEnsureInputs(name)
  \/ \E name \in TxNames : CallSpendInputs(name)
  \/ \E ans \in StoreAnswers : StoreAnswer(ans)
  \/ ResumeEnsureInputs
  \/ ResumeSpendInputs
  \/ \E o \in Outpoints, script \in Scripts : AddEntry(o, script)
  \/ \E o \in Outpoints, script \in Scripts : AddCoin(o, script)
  \/ \E o \in Outpoints, script \in Scripts : AddOutput(o, script)
  \/ \E name \in TxNames : ToFast(name)
  \/ \E name \in TxNames : FromFast(name)
  \/ \E name \in TxNames, kinds \in FastForms :
       FromFastInto(name, kinds)
  \/ \E script \in Scripts : EntryFromOutput(script)
  \/ \E name \in TxNames, index \in Indices, height \in EntryHeights :
       EntryFromTX(name, index, height)
  \/ EntrySpend
  \/ EntryToRaw
  \/ Reserialize

Spec == Init /\ [][Next]_vars

\* the synchronous operations: adding, spending, removing and undoing
NextSync ==
  \/ \E name \in TxNames, height \in Heights : AddTX(name, height)
  \/ \E o \in Outpoints : SpendOutput(o)
  \/ \E o \in Outpoints : RemoveOutput(o)
  \/ \E o \in Outpoints : Apply(o)
  \/ Top
  \/ Commit

SpecSync == Init /\ [][NextSync]_vars

\* the read-through operations over a view that transactions are added to
\* and outputs are spent from
NextAsync ==
  \/ \E name \in TxNames, height \in Heights : AddTX(name, height)
  \/ \E o \in Outpoints : SpendOutput(o)
  \/ \E o \in Outpoints : CallReadCoin(o)
  \/ \E name \in TxNames : CallEnsureInputs(name)
  \/ \E name \in TxNames : CallSpendInputs(name)
  \/ \E ans \in StoreAnswers : StoreAnswer(ans)
  \/ ResumeEnsureInputs
  \/ ResumeSpendInputs

SpecAsync == Init /\ [][NextAsync]_vars

\* adding to a view: whole transactions, single outpoints, coins read
\* through from the store and coins decoded from a fast form
NextAdd ==
  \/ \E name \in TxNames, height \in Heights : AddTX(name, height)
  \/ \E o \in Outpoints, script \in Scripts : AddEntry(o, script)
  \/ \E o \in Outpoints, script \in Scripts : AddCoin(o, script)
  \/ \E o \in Outpoints, script \in Scripts : AddOutput(o, script)
  \/ \E o \in Outpoints : CallReadCoin(o)
  \/ \E ans \in StoreAnswers : StoreAnswer(ans)
  \/ \E name \in TxNames, kinds \in FastForms :
       FromFastInto(name, kinds)

SpecAdd == Init /\ [][NextAdd]_vars

\* the fast form of a view that transactions and entries are added to and
\* outputs are spent from
NextFast ==
  \/ \E name \in TxNames, height \in Heights : AddTX(name, height)
  \/ \E o \in Outpoints : AddEntry(o, "pay")
  \/ \E o \in Outpoints : SpendOutput(o)
  \/ \E name \in TxNames : ToFast(name)
  \/ \E name \in TxNames : FromFast(name)

\* adding to, spending from and removing from the slots of the buckets
NextSlots ==
  \/ \E name \in TxNames, height \in Heights : AddTX(name, height)
  \/ \E o \in Outpoints, script \in Scripts : AddEntry(o, script)
  \/ \E o \in Outpoints, script \in Scripts : AddCoin(o, script)
  \/ \E o \in Outpoints, script \in Scripts : AddOutput(o, script)
  \/ \E o \in Outpoints : SpendOutput(o)
  \/ \E o \in Outpoints : RemoveOutput(o)

SpecSlots == Init /\ [][NextSlots]_vars

SpecFast == Init /\ [][NextFast]_vars

\* a CoinEntry built, spent and serialized outside any view
NextEntry ==
  \/ \E script \in Scripts : EntryFromOutput(script)
  \/ \E name \in TxNames, index \in Indices, height \in EntryHeights :
       EntryFromTX(name, index, height)
  \/ EntrySpend
  \/ EntryToRaw
  \/ Reserialize

SpecEntry == Init /\ [][NextEntry]_vars

\* buckets addEntry leaves empty, written by their own add and by spends
\* and removals
NextBucket ==
  \/ \E o \in Outpoints : AddEntry(o, "nulldata")
  \/ \E hash \in Hashes, index \in AnyIndices : CoinsAdd(hash, index)
  \/ \E o \in Outpoints : SpendOutput(o)
  \/ \E o \in Outpoints : RemoveOutput(o)

SpecBucket == Init /\ [][NextBucket]_vars

\* a view filled by addTX, emptied by spends and removals, and read
NextRead ==
  \/ \E name \in TxNames, height \in Heights : AddTX(name, height)
  \/ \E o \in Outpoints : SpendOutput(o)
  \/ \E o \in Outpoints : RemoveOutput(o)
  \/ \E o \in Outpoints : CoinsGet(o)
  \/ \E o \in Outpoints : CoinsGetOutput(o)
  \/ \E o \in Outpoints : CoinsGetCoin(o)
  \/ \E o \in Outpoints : GetEntry(o)
  \/ \E o \in Outpoints : GetCoin(o)
  \/ \E o \in Outpoints : GetOutput(o)
  \/ \E o \in Outpoints : GetHeight(o)
  \/ \E o \in Outpoints : IsCoinbase(o)

SpecRead == Init /\ [][NextRead]_vars

\* buckets made of whole transactions, spent from and removed from
NextTX ==
  \/ \E name \in AllTxNames, height \in Heights : AddTX(name, height)
  \/ \E name \in AllTxNames, height \in Heights : RemoveTX(name, height)
  \/ \E o \in TxOutpoints : SpendOutput(o)
  \/ \E o \in TxOutpoints : RemoveOutput(o)

SpecTX == Init /\ [][NextTX]_vars

\* the undo stack filled by spends, popped by apply, serialized and read
NextUndo ==
  \/ \E name \in TxNames, height \in Heights : AddTX(name, height)
  \/ \E o \in Outpoints : SpendOutput(o)
  \/ \E o \in Outpoints : Apply(o)
  \/ Commit
  \/ UndoToRaw
  \/ UndoFromRaw

SpecUndo == Init /\ [][NextUndo]_vars

\* a CoinEntry whose fields change after its bytes were cached
NextRaw ==
  \/ \E script \in Scripts : EntryFromOutput(script)
  \/ \E name \in TxNames, index \in Indices, height \in Heights :
       EntryFromTX(name, index, height)
  \/ EntryFromRaw
  \/ \E name \in TxNames, index \in Indices, height \in LaterHeights :
       EntryInjectTX(name, index, height)
  \/ EntrySpend
  \/ EntryEmit

SpecRaw == Init /\ [][NextRaw]_vars

\* the three serialized forms of spent and unspent entries and what is
\* read back from them
NextSerial ==
  \/ \E name \in TxNames, height \in Heights : AddTX(name, height)
  \/ \E o \in Outpoints : SpendOutput(o)
  \/ \E name \in TxNames : ToFast(name)
  \/ \E name \in TxNames : FromFast(name)
  \/ UndoToRaw
  \/ UndoFromRaw

SpecSerial == Init /\ [][NextSerial]_vars

\* ensureInputs and spendInputs over a view transactions are added to
NextInputs ==
  \/ \E name \in TxNames, height \in Heights : AddTX(name, height)
  \/ \E name \in TxNames : BeginEnsureInputs(name)
  \/ \E name \in TxNames : BeginSpendInputs(name)
  \/ \E ans \in StoreAnswers : StoreAnswer(ans)
  \/ ResumeEnsureInputs
  \/ ResumeSpendInputs

\* the store answers every lookup and co resumes a generator whose promise
\* has settled
SpecInputs ==
  /\ Init
  /\ [][NextInputs]_vars
  /\ WF_vars(\E ans \in StoreAnswers : StoreAnswer(ans))
  /\ WF_vars(ResumeEnsureInputs)
  /\ WF_vars(ResumeSpendInputs)

\* two readCoin or spendInputs calls in progress on one view
NextRace ==
  \/ \E o \in Outpoints : CallReadCoin(o)
  \/ \E name \in TxNames : CallSpendInputs(name)
  \/ \E ans \in StoreAnswers : StoreAnswer(ans)
  \/ ResumeSpendInputs
  \/ Switch

SpecRace == Init /\ [][NextRace]_vars

(* ------------------------------ properties --------------------------- *)

\* the entry at outpoint o can be spent: its bucket is in the map, its slot
\* is in range and holds an entry, and that entry is not spent
CanSpend(m, h, o) ==
  /\ o.hash \in DOMAIN m
  /\ o.index < Len(m[o.hash].outputs)
  /\ m[o.hash].outputs[o.index + 1] # NULL
  /\ ~h[m[o.hash].outputs[o.index + 1]].spent

\* the step is a successful spend: ret'.id is the entry it spent
SpendStep ==
  /\ ret'.op \in {"spendOutput", "spendInputs"}
  /\ ret'.id # UNDEFINED

\* the step is an apply that popped an entry
PopStep == ret'.op = "apply" /\ items # <<>>

\* N spends since the undo stack was last empty have been followed by N
\* applies at the spent outpoints in reverse order, and by nothing else that
\* changes the view
UndoRunComplete == hist.ok /\ hist.n > 0 /\ hist.ops = <<>>

\* C1: after N successful spends, N applies at the spent outpoints in
\* reverse spend order restore every bucket to the entries and spent flags
\* it had before the first spend, and the undo stack is empty.
C1_UndoRestores ==
  UndoRunComplete =>
    /\ Len(items) = 0
    /\ \A k \in DOMAIN hist.snap :
         /\ k \in DOMAIN map
         /\ Contents(map, heap)[k] = hist.snap[k]

\* C2: apply on a non-empty stack removes exactly the top entry and, when
\* the view had no entry at the outpoint, afterwards the view has an entry
\* there and it is the one that was on top of the stack.
C2_ApplyReinserts ==
  [][(ret'.op = "apply" /\ Len(items) > 0
        /\ ~CoinView_hasEntry(map, ret'.o))
     => /\ items' = Front(items)
        /\ CoinView_hasEntry(map', ret'.o)
        /\ CoinView_getEntry(map', ret'.o) = Last(items)]_vars

\* C3: the undo stack is LIFO: a spend pushes its entry on top, an apply
\* pops the entry pushed most recently among those not yet popped, nothing
\* but a push, a pop or a commit changes the stack, and top returns the entry
\* the next apply pops and leaves the stack as it is.
C3_Lifo ==
  [][/\ SpendStep => items' = Append(items, ret'.id)
     /\ PopStep => items' = Front(items) /\ ret'.id = Last(items)
     /\ items' # items => SpendStep \/ PopStep \/ ret'.op = "commit"
     /\ ret'.op = "top" =>
          /\ items' = items
          /\ ret'.id = IF items = <<>> THEN UNDEFINED ELSE Last(items)
     /\ (ret.op = "top" /\ PopStep) => ret'.id = ret.id]_vars

\* two entries were pushed and the newer one has been popped
C3_Witness ==
  /\ ret.op = "apply"
  /\ ret.id # UNDEFINED
  /\ Len(items) = 1
  /\ items[1] < ret.id

\* C4: apply on an empty stack fails with an assertion and leaves the stack
\* empty and the view unchanged.
C4_ApplyEmpty ==
  [][(ret'.op = "apply" /\ items = <<>>)
     => /\ ret'.err = "AssertionError"
        /\ items' = <<>>
        /\ map' = map
        /\ heap' = heap]_vars

\* apply has failed its assertion on a view that holds a bucket
C4_Witness ==
  /\ ret.op = "apply"
  /\ ret.err = "AssertionError"
  /\ items = <<>>
  /\ DOMAIN map # {}

\* C5: spendOutput / spendFrom return false and change nothing when the
\* bucket is absent, the slot is out of range or empty, or the entry is
\* already spent.
C5_FailedSpendNoop ==
  [][(ret'.op = "spendOutput" /\ ~CanSpend(map, heap, ret'.o))
     => /\ ret'.val = "false"
        /\ map' = map
        /\ heap' = heap
        /\ items' = items]_vars

\* spendOutput has returned false for an entry that is already spent
C5_Witness ==
  /\ ret.op = "spendOutput"
  /\ ret.val = "false"
  /\ CoinView_hasEntry(map, ret.o)
  /\ heap[CoinView_getEntry(map, ret.o)].spent

\* C6: a successful spend flips exactly one entry from unspent to spent,
\* keeps it in its slot and pushes exactly that entry once; the undo stack
\* length equals the successful spends minus the applied undos since the
\* view was created or last committed.
C6_SpendPushesOnce ==
  /\ [](Len(items) = balance)
  /\ [][(ret'.op = "spendOutput" /\ ret'.val = "true")
        => LET id == CoinView_getEntry(map, ret'.o) IN
           /\ CanSpend(map, heap, ret'.o)
           /\ heap' = [heap EXCEPT ![id].spent = TRUE]
           /\ map' = map
           /\ CoinView_hasEntry(map', ret'.o)
           /\ items' = Append(items, id)]_vars

\* a second spend has succeeded after the first one was undone
C6_Witness ==
  /\ ret.op = "spendOutput"
  /\ ret.val = "true"
  /\ Len(items) = 1
  /\ Cardinality({id \in DOMAIN heap : heap[id].spent}) = 2

\* the call of op has just returned
Returned(op) == call.pc = "done" /\ call.op = op

\* what readCoin met for an input left it without a coin
Unresolved(res) == res \in {"null", "nulldata"}

\* the step issues one db.readCoin for outpoint o
OneLookup(o) == lookups' = [lookups EXCEPT ![o.hash] = @ + 1]

\* C7: spendInputs returns false at the first input whose coin cannot be
\* resolved or is already spent; the earlier inputs stay spent with their
\* entries on the undo stack, no later input is looked up, and it returns
\* true only if every input was spent.
C7_SpendInputs ==
  Returned("spendInputs") =>
    LET n == Len(call.inputs)
        k == call.i
    IN
    /\ ret.val \in {"true", "false"}
    /\ ret.val = "true" <=> k = n
    /\ Len(call.res) = IF k = n THEN n ELSE k + 1
    /\ \A j \in 1 .. k : ~Unresolved(call.res[j])
    /\ Len(items) = call.base + k
    /\ \A j \in 1 .. k :
         /\ items[call.base + j] = CoinView_getEntry(map, call.inputs[j])
         /\ heap[items[call.base + j]].spent
    /\ k < n =>
         \/ Unresolved(call.res[k + 1])
         \/ /\ CoinView_hasEntry(map, call.inputs[k + 1])
            /\ heap[CoinView_getEntry(map, call.inputs[k + 1])].spent

\* spendInputs has returned false at the second input of a transaction
\* whose two inputs name the same outpoint: the first input stays spent
C7_Witness ==
  /\ Returned("spendInputs")
  /\ ret.val = "false"
  /\ call.i = 1
  /\ call.inputs[1] = call.inputs[2]
  /\ Len(items) = call.base + 1

\* C8: ensureInputs reads every input through, also after an earlier input
\* failed, marks no entry spent, pushes nothing, and returns false exactly
\* when some input's coin could not be resolved.
C8_EnsureInputs ==
  /\ [](Returned("ensureInputs") =>
          /\ Len(call.res) = Len(call.inputs)
          /\ ret.val \in {"true", "false"}
          /\ ret.val = "false" <=>
               \E j \in 1 .. Len(call.res) : Unresolved(call.res[j])
          /\ Len(items) = call.base)
  /\ [][call'.op = "ensureInputs"
        => /\ items' = items
           /\ \A id \in DOMAIN heap : heap'[id] = heap[id]
           /\ \A id \in DOMAIN heap' : id \notin DOMAIN heap
                => ~heap'[id].spent]_vars

\* ensureInputs has returned false after loading the coin of its second
\* input although the first could not be resolved
C8_Witness ==
  /\ Returned("ensureInputs")
  /\ ret.val = "false"
  /\ call.res = <<"null", "pay">>
  /\ CoinView_hasEntry(map, call.inputs[2])

\* C9: a hash absent from the map is fetched from the store at most once.
C9_FetchedOnce == \A h \in Hashes : lookups[h] <= 1

\* C9 as amended: a lookup is issued for an outpoint only while the view has
\* no entry at it and it is one lookup; an answer with a spendable coin puts
\* an entry at the outpoint; and no step of readCoin, ensureInputs or
\* spendInputs takes an entry out of the view.
C9_LookupOnlyUncached ==
  /\ [](call.pc = "wait" => ~CoinView_hasEntry(map, Cur(call)))
  /\ [][/\ lookups' # lookups
             => /\ call'.pc = "wait"
                /\ OneLookup(Cur(call'))
                /\ ~CoinView_hasEntry(map', Cur(call'))
        /\ (call.pc = "wait" /\ Last(call'.res) = "pay")
             => CoinView_hasEntry(map', Cur(call))
        /\ call'.op # "none"
             => \A o \in Outpoints :
                  CoinView_hasEntry(map, o) => CoinView_hasEntry(map', o)
       ]_vars

\* readCoin has returned the bucket of an outpoint without a lookup, the
\* entry there being the one an earlier lookup put in
C9_Witness ==
  /\ Returned("readCoin")
  /\ call.res = <<"cached">>
  /\ lookups[ret.o.hash] = 1
  /\ heap[CoinView_getEntry(map, ret.o)].output
       = StoreCoin(ret.o, "pay").output

\* what a step of readCoin does when the view has the entry, when the store
\* is asked and when it answers null
ReadCoinCommon(answered) ==
  IF call.pc # "wait"
  THEN IF CoinView_hasEntry(map, ret'.o)
       THEN lookups' = lookups /\ ret'.val = "coins" /\ map' = map
       ELSE OneLookup(ret'.o) /\ ret'.val = "pending" /\ map' = map
  ELSE /\ lookups' = lookups
       /\ IF Last(call'.res) = "null"
          THEN ret'.val = "undefined" /\ map' = map
          ELSE answered

\* the step has put the store's coin at the outpoint and returns its bucket
Inserted ==
  /\ ret'.val = "coins"
  /\ CoinView_hasEntry(map', ret'.o)
  /\ heap'[CoinView_getEntry(map', ret'.o)]
       = StoreCoin(ret'.o, Last(call'.res))

\* C10: readCoin issues no lookup and returns the bucket when the view has
\* the entry; otherwise it issues exactly one lookup, a null answer returns
\* nothing and leaves the map unchanged, and a non-null answer is inserted
\* at the outpoint and its bucket returned.
C10_ReadCoin ==
  [][ret'.op = "readCoin" => ReadCoinCommon(Inserted)]_vars

\* C10 as amended: a non-null answer is inserted and its bucket returned
\* when its script is spendable; when it is unspendable nothing is inserted,
\* readCoin returns nothing, and the view has (at most) gained an empty
\* bucket for the hash.
C10_ReadCoinSpendable ==
  [][ret'.op = "readCoin" =>
       ReadCoinCommon(
         IF ~isUnspendable(Last(call'.res)) THEN Inserted
         ELSE /\ ret'.val = "undefined"
              /\ ~CoinView_hasEntry(map', ret'.o)
              /\ heap' = heap
              /\ map' = IF CoinView_has(map, ret'.o.hash) THEN map
                        ELSE CoinView_add(map, ret'.o.hash, Coins))]_vars

\* readCoin has asked the store, got a spendable coin and returned the
\* bucket the coin was inserted into
C10_Witness ==
  /\ Returned("readCoin")
  /\ call.res = <<"pay">>
  /\ ret.val = "coins"
  /\ CoinView_hasEntry(map, ret.o)

\* no slot of any bucket of the map m holds an entry whose script is
\* unspendable
NoUnspendableStored(m, h) ==
  \A k \in DOMAIN m :
    \A i \in 1 .. Len(m[k].outputs) :
      m[k].outputs[i] # NULL =>
        ~isUnspendable(h[m[k].outputs[i]].output.script)

\* the step adds something unspendable at the outpoint o: an entry, a coin,
\* an output, or the coin the store answered a readCoin of o with
AddsUnspendable(o) ==
  \/ AddEntry(o, "nulldata")
  \/ AddCoin(o, "nulldata")
  \/ AddOutput(o, "nulldata")
  \/ (call.pc = "wait" /\ Cur(call) = o /\ StoreAnswer("nulldata"))

\* C11: after any sequence of addTX, addEntry, addCoin, addOutput, readCoin
\* and fromFast no slot of any bucket holds an entry whose script is
\* unspendable, and after something unspendable was added at an outpoint
\* that had no entry, hasEntry of that outpoint is still false.
C11_NeverUnspendable ==
  /\ [](NoUnspendableStored(map, heap))
  /\ [][(/\ ret'.op \in {"addEntry", "addCoin", "addOutput", "readCoin"}
          /\ ~CoinView_hasEntry(map, ret'.o)
          /\ AddsUnspendable(ret'.o))
            => ~CoinView_hasEntry(map', ret'.o)]_vars

\* an unspendable coin was added at an outpoint without entry whose bucket
\* holds another entry: the bucket is there, the outpoint has no entry
C11_Witness ==
  /\ ret.op = "addCoin"
  /\ ret.val = "undefined"
  /\ ret.err = "none"
  /\ ret.o.hash \in DOMAIN map
  /\ ~CoinView_hasEntry(map, ret.o)
  /\ \E i \in Indices : CoinView_hasEntry(map, Outpoint(ret.o.hash, i))

\* C12: addEntry, addCoin and addOutput at an outpoint whose slot holds an
\* entry, spent or not, throw nothing and change no slot, no entry (the spent
\* flags included) and not the undo stack.
C12_FirstWriteWins ==
  [][(/\ ret'.op \in {"addEntry", "addCoin", "addOutput"}
      /\ CoinView_hasEntry(map, ret'.o))
       => /\ ret'.err = "none"
          /\ map' = map
          /\ heap' = heap
          /\ items' = items]_vars

\* addEntry ran at an outpoint holding a spent entry of a transaction: the
\* entry is still the transaction's, not the one handed to addEntry
C12_Witness ==
  /\ ret.op = "addEntry"
  /\ ret.val = "coins"
  /\ CoinView_hasEntry(map, ret.o)
  /\ heap[CoinView_getEntry(map, ret.o)].spent
  /\ heap[CoinView_getEntry(map, ret.o)].output # NewOutput("pay")
  /\ Len(items) = 1

\* length() of the bucket of hash k in the map m, 0 when it has none
LengthOf(m, h, k) ==
  IF k \in DOMAIN m THEN Coins_length(h, m[k].outputs) ELSE 0

\* the step is a successful spendOutput of an entry of the bucket of hash k
\* at index i
SpendsAt(k, i) ==
  /\ ret'.op = "spendOutput"
  /\ ret'.val = "true"
  /\ ret'.o = Outpoint(k, i)

\* C13: spending an unspent entry below the highest unspent index of its
\* bucket leaves length() of the bucket unchanged.
C13_SpendBelowTop ==
  [][\A k \in Hashes, i \in Indices :
       (SpendsAt(k, i) /\ i < LengthOf(map, heap, k) - 1)
         => LengthOf(map', heap', k) = LengthOf(map, heap, k)]_vars

\* index 0 of a bucket of two unspent entries was spent: length() is 2
C13_Witness ==
  /\ ret.op = "spendOutput"
  /\ ret.val = "true"
  /\ ret.o.index = 0
  /\ heap[CoinView_getEntry(map, ret.o)].spent
  /\ LengthOf(map, heap, ret.o.hash) = 2

\* C14 as stated: spending the entry at index length() - 1 makes length()
\* smaller by exactly one.
C14_ShrinksByOne ==
  [][\A k \in Hashes, i \in Indices :
       (SpendsAt(k, i) /\ i = LengthOf(map, heap, k) - 1)
         => LengthOf(map', heap', k) = LengthOf(map, heap, k) - 1]_vars

\* C14 as amended: spending the entry at index length() - 1 makes length()
\* smaller, by exactly one when the slot below holds an unspent entry, and
\* otherwise down to one past the highest index still unspent (0 and
\* isEmpty() when there is none); while length() is not 0 the entry at index
\* length() - 1 can be spent, so this repeats until the bucket is empty.
C14_ShrinksToNextUnspent ==
  /\ [](\A k \in DOMAIN map :
          /\ LengthOf(map, heap, k) > 0
               => CanSpend(map, heap, Outpoint(k, LengthOf(map, heap, k) - 1))
          /\ Coins_isEmpty(heap, map[k].outputs)
               <=> \A i \in 0 .. Len(map[k].outputs) - 1 :
                     ~Coins_isUnspent(heap, map[k].outputs, i))
  /\ [][\A k \in Hashes, i \in Indices :
          (SpendsAt(k, i) /\ i = LengthOf(map, heap, k) - 1)
            => /\ LengthOf(map', heap', k) < LengthOf(map, heap, k)
               /\ \A j \in 0 .. i :
                    Coins_isUnspent(heap', map'[k].outputs, j)
                      => j < LengthOf(map', heap', k)
               /\ (i > 0 /\ Coins_isUnspent(heap, map[k].outputs, i - 1))
                    => LengthOf(map', heap', k) = i
               /\ (\A j \in 0 .. i - 1 :
                     ~Coins_isUnspent(heap, map[k].outputs, j))
                    => /\ LengthOf(map', heap', k) = 0
                       /\ Coins_isEmpty(heap', map'[k].outputs)]_vars

\* both entries of a bucket were spent from the top down: length() went
\* from 2 to 1 to 0 and the bucket is empty with its two entries in place
C14_Witness ==
  /\ ret.op = "spendOutput"
  /\ ret.val = "true"
  /\ ret.o.index = 0
  /\ Len(items) = 2
  /\ items[1] = CoinView_getEntry(map, Outpoint(ret.o.hash, 1))
  /\ Len(map[ret.o.hash].outputs) = 2
  /\ Coins_isEmpty(heap, map[ret.o.hash].outputs)

\* the slot array is empty or ends with an entry
Trimmed(outputs) == outputs = <<>> \/ Last(outputs) # NULL

\* the slot of index i (slot i + 1 of the sequence), NULL beyond the end
SlotAt(outputs, i) == IF i < Len(outputs) THEN outputs[i + 1] ELSE NULL

\* C20: after any sequence of add, addOutput, addCoin, spend, remove and
\* fromTX the slot array of every bucket is empty or ends with an entry;
\* remove empties its slot and trims, and fromTX trims, without moving or
\* dropping any other entry: every entry that remains keeps its index, holes
\* below it included.
C20_TrailingTrimmed ==
  /\ [](\A k \in DOMAIN map : Trimmed(map[k].outputs))
  /\ [][/\ (ret'.op = "removeOutput" /\ ret'.val = "entry") =>
             \A i \in 0 .. Len(map[ret'.o.hash].outputs) - 1 :
               SlotAt(map'[ret'.o.hash].outputs, i) =
                 IF i = ret'.o.index THEN NULL
                 ELSE SlotAt(map[ret'.o.hash].outputs, i)
        /\ \A name \in TxNames :
             (/\ ret'.op = "addTX"
              /\ \E height \in Heights : AddTX(name, height)) =>
               \A i \in 0 .. Len(TXS[name].outputs) - 1 :
                 IF isUnspendable(TXS[name].outputs[i + 1].script)
                 THEN SlotAt(map'[TXS[name].hash].outputs, i) = NULL
                 ELSE /\ SlotAt(map'[TXS[name].hash].outputs, i) # NULL
                      /\ heap'[SlotAt(map'[TXS[name].hash].outputs, i)].output
                           = TXS[name].outputs[i + 1]]_vars

\* the entry at index 0 of a bucket of two was removed: the hole stays and
\* the entry at index 1 is where it was
C20_Witness ==
  /\ ret.op = "removeOutput"
  /\ ret.val = "entry"
  /\ ret.o.index = 0
  /\ Len(map[ret.o.hash].outputs) = 2
  /\ map[ret.o.hash].outputs[1] = NULL
  /\ map[ret.o.hash].outputs[2] # NULL
  /\ map[ret.o.hash].outputs[2] # ret.id

\* fromFast has decoded the bytes of toFast against the transaction toFast
\* was called with
RoundTrip == fast.tx # "" /\ fast.dtx = fast.tx

\* the inputs of the transaction of the fast form
FastInputs == TXS[fast.tx].inputs

\* input i had an entry in the view when toFast ran
HadEntry(i) == fast.src[i] # [null |-> TRUE]

\* what the record of an entry keeps
Fields(e) ==
  [version |-> e.version, height |-> e.height, coinbase |-> e.coinbase,
   output |-> e.output]

\* C15: the view fromFast decodes from the bytes of toFast(tx), against the
\* same tx, has for every input of tx that had an entry an entry with the
\* same version, height, coinbase and output at the input's outpoint, and
\* no entry for every input that had none.
C15_FastRoundTrip ==
  RoundTrip =>
    \A i \in 1 .. Len(FastInputs) :
      IF HadEntry(i)
      THEN /\ CoinView_hasEntry(fast.view.map, FastInputs[i])
           /\ Fields(fast.view.heap[CoinView_getEntry(fast.view.map,
                                                      FastInputs[i])])
                = Fields(fast.src[i])
      ELSE ~CoinView_hasEntry(fast.view.map, FastInputs[i])

\* a round trip against a transaction whose first input had no entry and
\* whose second input had the spent output of a coinbase transaction
C15_Witness ==
  /\ RoundTrip
  /\ ~HadEntry(1)
  /\ HadEntry(2)
  /\ fast.src[2].coinbase
  /\ fast.src[2].spent
  /\ CoinView_hasEntry(fast.view.map, FastInputs[2])

\* the bytes of input i in the layout: 0, or 1 and the record of the entry
RECURSIVE Layout(_)
Layout(src) ==
  IF src = <<>> THEN <<>>
  ELSE (IF Head(src) = [null |-> TRUE] THEN <<0>>
        ELSE <<1>> \o CoinEntry_toWriter(Head(src), <<>>))
       \o Layout(Tail(src))

RECURSIVE SizeSum(_)
SizeSum(src) ==
  IF src = <<>> THEN 0
  ELSE (IF Head(src) = [null |-> TRUE] THEN 0
        ELSE CoinEntry_getSize(Head(src)))
       + SizeSum(Tail(src))

\* C16: toFast writes, per input in input order, the byte 0 when the view
\* holds no entry for it, else the byte 1 and the record of the entry, and
\* getFastSize is the number of bytes toFast writes: the number of inputs
\* plus the getSize() of the entries.
C16_FastLayout ==
  fast.tx # "" =>
    /\ fast.raw = Layout(fast.src)
    /\ fast.size = Len(fast.raw)
    /\ fast.size = Len(FastInputs) + SizeSum(fast.src)

\* toFast ran for a transaction with one input without entry and one with:
\* one byte, then one byte and a record
C16_Witness ==
  /\ ret.op = "toFast"
  /\ ~HadEntry(1)
  /\ HadEntry(2)
  /\ fast.raw[1] = 0
  /\ fast.raw[2] = 1
  /\ Len(fast.raw) > 2

\* the indices of the bucket of hash k that inputs with an entry name
CachedIndices(k) ==
  {FastInputs[i].index :
     i \in {j \in 1 .. Len(FastInputs) :
              HadEntry(j) /\ FastInputs[j].hash = k}}

StillUnspent(k) ==
  {FastInputs[i].index :
     i \in {j \in 1 .. Len(FastInputs) :
              /\ HadEntry(j)
              /\ FastInputs[j].hash = k
              /\ ~fast.src[j].spent}}

Highest(S) == CHOOSE x \in S : \A y \in S : y <= x

NeverCachedAbsent(k) ==
  \A i \in Indices \ CachedIndices(k) :
    Coins_get(fast.view.map[k].outputs, i) \in {NULL, UNDEFINED}

\* C17 as stated: every bucket of the decoded view has length() equal to
\* the number of its inputs that had an entry not yet spent, and get(index)
\* gives nothing for the indices no input had an entry for.
C17_LengthCountsUnspent ==
  RoundTrip =>
    \A k \in DOMAIN fast.view.map :
      /\ Coins_length(fast.view.heap, fast.view.map[k].outputs)
           = Cardinality(StillUnspent(k))
      /\ NeverCachedAbsent(k)

\* C17 as amended: every bucket of the decoded view has length() one past
\* the highest index an input had an entry for, spent or not (the record
\* does not keep the spent flag, every decoded entry is unspent), and
\* get(index) gives nothing for the indices no input had an entry for.
C17_LengthPastHighestCached ==
  RoundTrip =>
    \A k \in DOMAIN fast.view.map :
      /\ CachedIndices(k) # {}
      /\ Coins_length(fast.view.heap, fast.view.map[k].outputs)
           = Highest(CachedIndices(k)) + 1
      /\ \A i \in CachedIndices(k) :
           Coins_isUnspent(fast.view.heap, fast.view.map[k].outputs, i)
      /\ NeverCachedAbsent(k)

\* the view held two buckets; the decoded bucket has a hole at index 0 and
\* an entry at index 1
C17_Witness ==
  /\ RoundTrip
  /\ Cardinality(DOMAIN map) = 2
  /\ \E k \in DOMAIN fast.view.map :
       /\ Coins_length(fast.view.heap, fast.view.map[k].outputs) = 2
       /\ Coins_get(fast.view.map[k].outputs, 0) = NULL
       /\ CachedIndices(k) = {1}

\* C18: for an entry built from an output or a transaction, spent or not,
\* decoding its toRaw() bytes with fromRaw, clearing the cached raw and
\* encoding again gives the same bytes, and the decoded entry has the
\* version, height and coinbase flag of the entry.
C18_EntryRoundTrip ==
  entry.re =>
    /\ entry.e.raw # NoRaw
    /\ entry.out.raw = entry.e.raw
    /\ entry.out.version = entry.e.version
    /\ entry.out.height = entry.e.height
    /\ entry.out.coinbase = entry.e.coinbase

\* the spent entry of a coinbase transaction at the largest height was
\* reserialized
C18_Witness ==
  /\ entry.re
  /\ entry.e.spent
  /\ entry.e.coinbase
  /\ entry.e.version = 2
  /\ entry.e.height = 2^29 - 2

\* C19: packing height and coinbase into the 32-bit word and unpacking it
\* are inverse on heights -1 .. 2^29 - 2: unpacking the word of the entry
\* gives its height and coinbase, no other pair has that word, the word fits
\* 30 bits, and height -1 has the 29-bit field 0x1fffffff.
C19_PackBijective ==
  LET w == CoinEntry_pack(entry.e.height, entry.e.coinbase) IN
  /\ w >= 0 /\ w < 2^30
  /\ CoinEntry_unpack(w)
       = [height |-> entry.e.height, coinbase |-> entry.e.coinbase]
  /\ \A h \in EntryHeights, c \in BOOLEAN :
       CoinEntry_pack(h, c) = w => (h = entry.e.height /\ c = entry.e.coinbase)
  /\ entry.e.height = -1 => w % 2^29 = HeightMask

\* an entry of a coinbase transaction at height -1
C19_Witness ==
  /\ entry.e.height = -1
  /\ entry.e.coinbase
  /\ CoinEntry_pack(entry.e.height, entry.e.coinbase) = HeightMask + 2^29


(* ------------------------------ Coins.add ----------------------------- *)

\* the slot of a bucket at an index, in range or not
Occupied(outputs, index) ==
  index >= 0 /\ index < Len(outputs) /\ outputs[index + 1] # NULL

\* C21: Coins.add fails with an assertion error when the index is negative
\* or the slot holds an entry, spent or not, and then leaves the slots as
\* they were; otherwise it stores the entry at exactly that index, with
\* holes in the slots it had to create below it and every other slot kept;
\* an add at the index of an entry just removed succeeds
C21_AddAssertsOrStores ==
  [][ret'.op = "coins.add" =>
       LET hash == ret'.o.hash
           index == ret'.o.index
           before == map[hash].outputs
           after == map'[hash].outputs
       IN
       /\ \A k \in DOMAIN map \ {hash} : map'[k] = map[k]
       /\ IF index < 0 \/ Occupied(before, index)
          THEN /\ ret'.err = "AssertionError"
               /\ after = before
          ELSE /\ ret'.err = "none"
               /\ Len(after) = (IF index < Len(before) THEN Len(before)
                                ELSE index + 1)
               /\ after[index + 1] = ret'.id
               /\ \A j \in 1 .. Len(after) :
                    j # index + 1 =>
                      after[j] = (IF j <= Len(before) THEN before[j]
                                  ELSE NULL)
       /\ (ret.op = "removeOutput" /\ ret.val = "entry" /\ ret.o = ret'.o)
            => ret'.err = "none"]_vars

\* an add stored a second entry above a hole in a bucket whose first entry
\* had been removed
C21_Witness ==
  /\ ret.op = "coins.add"
  /\ ret.err = "none"
  /\ ret.o = Outpoint("h1", 1)
  /\ DOMAIN map = {"h1"}
  /\ map["h1"].outputs = <<NULL, 2>>

(* --------------------------- read accessors --------------------------- *)

ReadOps ==
  {"coins.get", "coins.getOutput", "coins.getCoin",
   "getEntry", "getCoin", "getOutput"}

\* the view holds an entry at outpoint o, spent or not
Held(o) ==
  LET coin == CoinView_getEntry(map, o) IN coin # UNDEFINED /\ coin # NULL

\* what a read accessor is to return for the entry at outpoint o
DataOf(op, o) ==
  LET id == CoinView_getEntry(map, o) IN
  CASE op \in {"coins.get", "getEntry"} -> JSEntry(id)
    [] op \in {"coins.getOutput", "getOutput"} ->
         JSOutput(CoinEntry_toOutput(heap[id]))
    [] op \in {"coins.getCoin", "getCoin"} ->
         JSCoin(CoinEntry_toCoin(heap[id], map[o.hash].hash, o.index))

\* C22: the read accessors never throw; for an index out of range, an empty
\* slot or a missing bucket they return nothing, and for an entry that is
\* there they return the data of the entry at the addressed index
C22_ReadsNeverThrow ==
  ret.op \in ReadOps =>
    /\ ret.err = "none"
    /\ IF Held(ret.o) THEN got = DataOf(ret.op, ret.o)
       ELSE got \in {JSUndefined, JSNull}

\* C28: getHeight returns -1 and isCoinbase false for an outpoint the view
\* holds no entry for (no bucket, index out of range or a hole); otherwise
\* they return the height and the coinbase flag of the entry held there
C28_HeightAndCoinbase ==
  /\ ret.op = "getHeight" =>
       got = JSNumber(IF Held(ret.o)
                      THEN heap[CoinView_getEntry(map, ret.o)].height
                      ELSE -1)
  /\ ret.op = "isCoinbase" =>
       got = JSBoolean(IF Held(ret.o)
                       THEN heap[CoinView_getEntry(map, ret.o)].coinbase
                       ELSE FALSE)

\* getHeight has answered -1 for the hole below a coinbase entry of height 1
C28_Witness ==
  /\ ret.op = "getHeight"
  /\ got = JSNumber(-1)
  /\ CoinView_has(map, ret.o.hash)
  /\ ~Held(ret.o)
  /\ \E o \in Outpoints :
       /\ o.hash = ret.o.hash
       /\ Held(o)
       /\ CoinView_getHeight(View, o) = 1
       /\ CoinView_isCoinbase(View, o)

(* ------------------------- whole transactions ------------------------- *)

\* the step is addTX(tx, height) for the transaction of this name
AddsTX(name, height) == ret'.op = "addTX" /\ AddTX(name, height)

\* the step is removeTX(tx, height) for the transaction of this name
RemovesTX(name, height) == ret'.op = "removeTX" /\ RemoveTX(name, height)

\* the places of a slot array that hold an entry
Present(outputs) == {i \in 1 .. Len(outputs) : outputs[i] # NULL}

\* C23: removeTX(tx, height) installs under tx's hash a bucket laid out as
\* the one addTX(tx, height) installs, with every entry in it spent, so
\* that its length() is 0 and isEmpty() holds; for every transaction,
\* also one with unspendable outputs
C23_RemoveTXAllSpent ==
  [][\A name \in AllTxNames, height \in Heights :
       RemovesTX(name, height) =>
         LET tx == TXS[name]
             added == CoinView_addTX(View, tx, height).s.map[tx.hash]
         IN
         /\ ret'.err = "none"
         /\ CoinView_has(map', tx.hash)
         /\ Len(map'[tx.hash].outputs) = Len(added.outputs)
         /\ Present(map'[tx.hash].outputs) = Present(added.outputs)
         /\ \A i \in Present(map'[tx.hash].outputs) :
              heap'[map'[tx.hash].outputs[i]].spent
         /\ Coins_length(heap', map'[tx.hash].outputs) = 0
         /\ Coins_isEmpty(heap', map'[tx.hash].outputs)]_vars

\* C24: addTX(tx, height) puts every spendable output i of tx in slot i, as
\* a new unspent entry with tx's version, the height and tx's coinbase
\* flag; the index of an unspendable output holds no entry, and no slot
\* lies beyond tx's outputs
C24_OutputsAtTheirIndex ==
  [][\A name \in AllTxNames, height \in Heights :
       AddsTX(name, height) =>
         LET tx == TXS[name]
             outputs == map'[tx.hash].outputs
         IN
         /\ Len(outputs) <= Len(tx.outputs)
         /\ \A i \in 0 .. Len(tx.outputs) - 1 :
              IF isUnspendable(tx.outputs[i + 1].script)
              THEN ~Coins_has(outputs, i)
              ELSE /\ Coins_has(outputs, i)
                   /\ outputs[i + 1] > Len(heap)
                   /\ heap'[outputs[i + 1]] =
                        [version |-> tx.version, height |-> height,
                         coinbase |-> tx.coinbase,
                         output |-> tx.outputs[i + 1],
                         spent |-> FALSE, raw |-> NoRaw]]_vars

\* addTX has made the bucket of the coinbase transaction whose first output
\* is unspendable: a hole, then the entry of output 1
C24_Witness ==
  /\ ret.op = "addTX"
  /\ CoinView_has(map, "h2")
  /\ Len(map["h2"].outputs) = 2
  /\ map["h2"].outputs[1] = NULL
  /\ map["h2"].outputs[2] # NULL
  /\ heap[map["h2"].outputs[2]].coinbase
  /\ heap[map["h2"].outputs[2]].version = 2
  /\ heap[map["h2"].outputs[2]].output = Output(30, "pay")

\* C25 as stated: after addTX(tx, height) on a fresh view the bucket has as
\* many slots as tx has outputs
C25_SlotsEqualOutputs ==
  [][\A name \in AllTxNames, height \in Heights :
       (map = <<>> /\ AddsTX(name, height)) =>
         Len(map'[TXS[name].hash].outputs) = Len(TXS[name].outputs)]_vars

\* one past the index of the last spendable output of tx, 0 without one
PastLastSpendable(tx) ==
  LET spendable == {i \in 1 .. Len(tx.outputs) :
                      ~isUnspendable(tx.outputs[i].script)}
  IN IF spendable = {} THEN 0
     ELSE CHOOSE i \in spendable : \A j \in spendable : j <= i

\* C25: after addTX(tx, height) the bucket has one slot for every output of
\* tx up to its last spendable one: the slots of the unspendable outputs
\* after it are trimmed, so outputs.length equals tx.outputs.length only
\* when the last output of tx is spendable
C25_SlotsUpToLastSpendable ==
  [][\A name \in AllTxNames, height \in Heights :
       AddsTX(name, height) =>
         Len(map'[TXS[name].hash].outputs) = PastLastSpendable(TXS[name])]_vars

\* addTX on a fresh view has made a bucket of one slot of the transaction
\* with two outputs, the second unspendable
C25_Witness ==
  /\ ret.op = "addTX"
  /\ DOMAIN map = {"h3"}
  /\ Len(heap) = 1
  /\ Len(map["h3"].outputs) = 1
  /\ Len(TXS["c"].outputs) = 2

(* ----------------------------- undo blob ------------------------------ *)

\* the records of a sequence of entries, one after the other
RECURSIVE Records(_)
Records(es) ==
  IF es = <<>> THEN <<>>
  ELSE CoinEntry_toWriter(Head(es), <<>>) \o Records(Tail(es))

\* the blob of a sequence of entries: the count in 4 bytes, then the records
BlobOf(es) == writeU32(<<>>, Len(es)) \o Records(es)

\* C26: commit() returns the serialization of the stack as it is at the
\* call (as many records as entries were pushed and not yet popped, in push
\* order) and leaves the stack empty, so that isEmpty() holds afterwards and
\* a commit that follows returns the blob of count 0
C26_CommitDrains ==
  [][ret'.op = "commit" =>
       /\ blob'.raw = BlobOf(StackEntries(View))
       /\ readU32(BufferReader(blob'.raw)).v = balance
       /\ items' = <<>>
       /\ UndoCoins_isEmpty(items')
       /\ ret.op = "commit" => blob'.raw = writeU32(<<>>, 0)]_vars

\* a commit has returned the blob of two entries and emptied the stack
C26_Witness ==
  /\ ret.op = "commit"
  /\ readU32(BufferReader(blob.raw)).v = 2
  /\ Len(blob.src) = 2
  /\ items = <<>>

\* C27: toRaw writes the count in 4 bytes and then the records of the
\* entries in push order, as many bytes as getSize() says; fromRaw makes of
\* them as many entries, in the same order, with the same version, height,
\* coinbase flag and output
C27_UndoRoundTrip ==
  blob.raw # <<>> =>
    /\ blob.raw = BlobOf(blob.src)
    /\ readU32(BufferReader(blob.raw)).v = Len(blob.src)
    /\ Len(blob.raw) = blob.size
    /\ blob.read =>
         /\ Len(blob.items) = Len(blob.src)
         /\ \A i \in 1 .. Len(blob.src) :
              Fields(blob.items[i]) = Fields(blob.src[i])

\* fromRaw has read back two entries that differ, in the order they were
\* pushed in
C27_Witness ==
  /\ blob.read
  /\ Len(blob.items) = 2
  /\ Fields(blob.items[1]) # Fields(blob.items[2])
  /\ Fields(blob.items[2]) = Fields(blob.src[2])

(* ----------------------------- cached raw ----------------------------- *)

\* the record the fields of an entry encode to, whatever its raw
Encoded(e) == CoinEntry_toWriter([e EXCEPT !.raw = NoRaw], <<>>)

\* the step changes fields of the entry held without replacing the entry
Mutates ==
  \/ EntrySpend
  \/ \E name \in TxNames, index \in Indices, height \in LaterHeights :
       EntryInjectTX(name, index, height)

\* C29: once raw is set, by fromRaw or by a first toRaw, toRaw and toWriter
\* give exactly those bytes and getSize their length, whatever was done to
\* the fields in between, and toRaw changes nothing; on an entry without
\* raw, toRaw returns the record of the fields and sets raw to it
C29_RawWins ==
  /\ [][EntryEmit =>
          /\ got'.raw = entry'.e.raw
          /\ got'.written = got'.raw
          /\ got'.size = Len(got'.raw)
          /\ IF entry.e.raw # NoRaw
             THEN got'.raw = entry.e.raw /\ entry'.e = entry.e
             ELSE got'.raw = Encoded(entry.e) /\ got'.raw # NoRaw]_vars
  /\ [][Mutates => entry'.e.raw = entry.e.raw]_vars
  /\ [][EntryFromRaw => entry'.e.raw # NoRaw]_vars

\* toRaw, getSize and toWriter have answered with the cached bytes of an
\* entry whose fields encode to other bytes by now
C29_Witness ==
  /\ got.t = "bytes"
  /\ got.e = entry.e
  /\ got.raw = entry.e.raw
  /\ entry.e.raw # NoRaw
  /\ entry.e.raw # Encoded(entry.e)

(* --------------------------- the spent flag --------------------------- *)

\* the heap with the spent flag of the entries in flips inverted
Flipped(h, flips) ==
  [i \in DOMAIN h |->
     IF i \in flips THEN [h[i] EXCEPT !.spent = ~@] ELSE h[i]]

\* the entries of a sequence, each with its spent flag inverted
AllFlipped(es) ==
  [i \in DOMAIN es |->
     IF es[i] = [null |-> TRUE] THEN es[i]
     ELSE [es[i] EXCEPT !.spent = ~@]]

\* C30: the spent flag is in none of the serialized forms: entries that
\* differ in spent only have the same toRaw bytes, and views and undo
\* stacks that differ in the spent flags of their entries only have the
\* same fast form and the same undo blob; every entry read back by
\* CoinEntry.fromRaw or fromReader, UndoCoins.fromRaw or CoinView.fromFast
\* is unspent
C30_SpentNotSerialized ==
  /\ \A flips \in SUBSET DOMAIN heap :
       LET other == [View EXCEPT !.heap = Flipped(heap, flips)] IN
       /\ \A id \in DOMAIN heap :
            CoinEntry_toRaw(other.heap[id]).raw = CoinEntry_toRaw(heap[id]).raw
       /\ UndoCoins_toRaw(other) = UndoCoins_toRaw(View)
       /\ \A name \in TxNames :
            CoinView_toFast(other, TXS[name].inputs, <<>>)
              = CoinView_toFast(View, TXS[name].inputs, <<>>)
  /\ blob.raw # <<>> => blob.raw = BlobOf(AllFlipped(blob.src))
  /\ fast.tx # "" => fast.raw = Layout(AllFlipped(fast.src))
  /\ \A id \in DOMAIN heap :
       LET raw == CoinEntry_toRaw(heap[id]).raw IN
       /\ ~CoinEntry_fromRaw(raw).spent
       /\ ~CoinEntry_fromReader(BufferReader(raw)).e.spent
  /\ blob.read => \A i \in DOMAIN blob.items : ~blob.items[i].spent
  /\ fast.dtx # "" =>
       \A id \in DOMAIN fast.view.heap : ~fast.view.heap[id].spent

\* a spent entry was written to the undo blob and to the fast form, and
\* both were read back
C30_Witness ==
  /\ blob.read
  /\ \E i \in DOMAIN blob.src : blob.src[i].spent
  /\ Len(blob.items) = Len(blob.src)
  /\ RoundTrip
  /\ \E i \in DOMAIN fast.src : HadEntry(i) /\ fast.src[i].spent
  /\ fast.view.heap # <<>>
  /\ \E id \in DOMAIN heap : ~heap[id].spent

(* ------------------------------- remove ------------------------------- *)

\* C31: remove / removeOutput return false and change nothing when the
\* bucket or the slot is absent; otherwise they return the entry of the
\* slot, after which the slot holds no entry, every other entry is in the
\* slot it was in, with the spent flag it had, no bucket has come or gone,
\* and the undo stack is as before
C31_RemoveFrame ==
  [][ret'.op = "removeOutput" =>
       LET o == ret'.o IN
       /\ items' = items
       /\ heap' = heap
       /\ IF ~CoinView_hasEntry(map, o)
          THEN ret'.val = "false" /\ map' = map
          ELSE /\ ret'.val = "entry"
               /\ ret'.id = CoinView_getEntry(map, o)
               /\ ~CoinView_hasEntry(map', o)
               /\ DOMAIN map' = DOMAIN map
               /\ \A k \in DOMAIN map, i \in Indices :
                    Outpoint(k, i) # o =>
                      SlotAt(map'[k].outputs, i) = SlotAt(map[k].outputs, i)]_vars

\* the entry at index 0 was removed from under a spent entry at index 1,
\* which stays at index 1 and on the undo stack
C31_Witness ==
  /\ ret.op = "removeOutput"
  /\ ret.val = "entry"
  /\ ret.o.index = 0
  /\ Len(map[ret.o.hash].outputs) = 2
  /\ map[ret.o.hash].outputs[1] = NULL
  /\ heap[map[ret.o.hash].outputs[2]].spent
  /\ items = <<map[ret.o.hash].outputs[2]>>

(* ---------------------------- bucket queries --------------------------- *)

\* the indices whose slot holds an entry that is not spent
UnspentAt(h, outputs) ==
  {i \in 0 .. Len(outputs) - 1 :
     outputs[i + 1] # NULL /\ ~h[outputs[i + 1]].spent}

\* indices asked for, one of them past the end of every slot array
AskedIndices == 0 .. Cardinality(Indices)

\* C32: in every state of every bucket, length() is one past the highest
\* index whose slot holds an unspent entry, 0 without one, and at most the
\* number of slots; isEmpty() holds exactly when no slot holds an unspent
\* entry; has(index) holds exactly for a slot in range that is not null and
\* isUnspent(index) exactly for one whose entry is not spent
C32_LengthAndQueries ==
  \A k \in DOMAIN map :
    LET outputs == map[k].outputs
        unspent == UnspentAt(heap, outputs)
    IN
    /\ Coins_length(heap, outputs)
         = (IF unspent = {} THEN 0 ELSE Highest(unspent) + 1)
    /\ Coins_length(heap, outputs) <= Len(outputs)
    /\ Coins_isEmpty(heap, outputs) <=> unspent = {}
    /\ \A i \in AskedIndices :
         /\ Coins_has(outputs, i) <=> (i < Len(outputs) /\ outputs[i + 1] # NULL)
         /\ Coins_isUnspent(heap, outputs, i) <=> i \in unspent

\* a bucket of two slots, an unspent entry under a spent one: length() is 1
C32_Witness ==
  \E k \in DOMAIN map :
    /\ Len(map[k].outputs) = 2
    /\ UnspentAt(heap, map[k].outputs) = {0}
    /\ map[k].outputs[2] # NULL
    /\ Coins_length(heap, map[k].outputs) = 1
    /\ Coins_has(map[k].outputs, 1)
    /\ ~Coins_isUnspent(heap, map[k].outputs, 1)

(* ------------------------ termination of the calls -------------------- *)

InputOps == {"ensureInputs", "spendInputs"}

\* ensureInputs or spendInputs is under way
Running == call.op \in InputOps /\ call.pc \in {"wait", "got"}

\* the lookups the call c has issued: the answers it got and the one it
\* waits for
LookupsOf(c) ==
  Cardinality({j \in 1 .. Len(c.res) : c.res[j] # "cached"})
  + (IF c.pc = "wait" THEN 1 ELSE 0)

\* the step changes the view or its undo stack
ViewChanges == <<map, heap, items>>' # <<map, heap, items>>

\* every call returns; it has looked up an input at most once, and the
\* counter of the store moves with the lookups of the call
ReturnsWithinLookups ==
  /\ Running ~> (call.pc = "done")
  /\ [](call.op \in InputOps =>
          /\ call.i <= Len(call.inputs)
          /\ Len(call.res) <= call.i + 1
          /\ Len(call.res) <= Len(call.inputs)
          /\ LookupsOf(call) <= Len(call.inputs))
  /\ [][call'.op \in InputOps =>
          TotalLookups' - TotalLookups
            = LookupsOf(call') - (IF Idle THEN 0 ELSE LookupsOf(call))]_vars

\* C33 as stated: with a store that answers every lookup, spendInputs and
\* ensureInputs return after at most one lookup per input, and every change
\* of the view or the undo stack is made where a lookup has answered: by the
\* answer itself or for the input the answer was for
C33_ChangesOnlyOnAnswer ==
  /\ ReturnsWithinLookups
  /\ [][(call.op \in InputOps /\ ~Idle /\ ViewChanges) =>
          \/ call.pc = "wait"
          \/ call.res[call.i + 1] # "cached"]_vars

\* C33: with a store that answers every lookup, spendInputs and ensureInputs
\* return after at most one lookup per input; the view and the undo stack
\* change only in a step that takes the answer of the pending lookup or
\* that resumes spendInputs after readCoin returned, which for an input
\* found in the view is a spend no lookup came before
C33_ChangesOnlyWhenResumed ==
  /\ ReturnsWithinLookups
  /\ [][(call.op \in InputOps /\ ~Idle /\ ViewChanges) =>
            \/ /\ call.pc = "wait"
               /\ call'.res = Append(call.res, Last(call'.res))
               /\ Last(call'.res) \in StoreAnswers
            \/ /\ call.pc = "got"
               /\ call.op = "spendInputs"
               /\ items' = Append(items, ret'.id)]_vars

\* spendInputs has returned true without a lookup, both its inputs being
\* in the view: the undo stack has grown by two
C33_Witness ==
  /\ Returned("spendInputs")
  /\ ret.val = "true"
  /\ call.res = <<"cached", "cached">>
  /\ Len(items) = call.base + 2

\* C34: every bucket of the view records as its own hash the transaction
\* id it is stored under in the map, the buckets that addEntry, addCoin,
\* addOutput, readCoin and fromFast create on demand included
C34_BucketsRecordTheirHash ==
  \A hash \in DOMAIN map : map[hash].hash = hash

\* the bucket of hash is in the map m and has no unspent entry
EmptyBucket(m, h, hash) ==
  /\ CoinView_has(m, hash)
  /\ Coins_isEmpty(h, m[hash].outputs)

\* C36: addEntry, addCoin and addOutput at an outpoint whose hash has no
\* bucket install a bucket for the hash; when what is added is unspendable
\* the outpoint has no entry afterwards and the bucket is empty, and a
\* readCoin the store answers with an unspendable coin returns nothing and
\* leaves such an empty bucket in the map
C36_BucketInstalledAnyway ==
  [][(/\ ret'.op \in {"addEntry", "addCoin", "addOutput", "readCoin"}
      /\ ret'.val # "pending"
      /\ ~CoinView_has(map, ret'.o.hash)
      /\ (ret'.op = "readCoin" => Last(call'.res) # "null"))
        => /\ CoinView_has(map', ret'.o.hash)
           /\ DOMAIN map' = DOMAIN map \cup {ret'.o.hash}
           /\ AddsUnspendable(ret'.o) =>
                /\ ~CoinView_hasEntry(map', ret'.o)
                /\ EmptyBucket(map', heap', ret'.o.hash)
                /\ map'[ret'.o.hash].outputs = <<>>
                /\ heap' = heap
                /\ ret'.val = "undefined"
           /\ ~AddsUnspendable(ret'.o) =>
                /\ CoinView_hasEntry(map', ret'.o)
                /\ ~EmptyBucket(map', heap', ret'.o.hash)]_vars

\* the store has answered a readCoin with an unspendable coin: readCoin
\* returned nothing and the map holds an empty bucket for the hash
C36_Witness ==
  /\ Returned("readCoin")
  /\ call.res = <<"nulldata">>
  /\ ret.val = "undefined"
  /\ ret.err = "none"
  /\ CoinView_has(map, ret.o.hash)
  /\ map[ret.o.hash].outputs = <<>>

\* the outpoints the spendInputs call c has spent: its loop moves on only
\* after spendFrom returned true
SpentBy(c) ==
  IF c.op = "spendInputs" THEN {c.inputs[k] : k \in 1 .. c.i} ELSE {}

\* the slots of the map m that hold an entry, as <<hash, index>>
OccupiedSlots(m) ==
  {<<k, i>> : k \in DOMAIN m, i \in Indices} \cap
    {x \in Hashes \X Indices : Coins_has(m[x[1]].outputs, x[2])}

\* both calls have asked the store for the outpoint o and got one of the
\* answers
BothLookedUp(o, answers) ==
  \A c \in {call, peer.call} :
    \E k \in 1 .. Len(c.res) : c.inputs[k] = o /\ c.res[k] \in answers

\* the coins the store can answer with, and the ones addEntry keeps
StoreCoins == StoreAnswers \ {"null"}

SpendableCoins == {ans \in StoreCoins : ~isUnspendable(ans)}

\* the assertion of Coins.add was never hit; every entry allocated is held
\* by exactly one slot; no outpoint is spent by both calls or twice by one;
\* the undo stack holds exactly the spent entries, each once
NoDoubleInsertOrSpend ==
  /\ ret.err = "none"
  /\ peer.ret.err = "none"
  /\ Cardinality(OccupiedSlots(map)) = Len(heap)
  /\ \A id \in 1 .. Len(heap) :
       \E x \in OccupiedSlots(map) : SlotAt(map[x[1]].outputs, x[2]) = id
  /\ SpentBy(call) \cap SpentBy(peer.call) = {}
  /\ \A c \in {call, peer.call} :
       Cardinality(SpentBy(c)) = (IF c.op = "spendInputs" THEN c.i ELSE 0)
  /\ \A i, j \in 1 .. Len(items) : items[i] = items[j] => i = j
  /\ \A id \in 1 .. Len(heap) :
       heap[id].spent <=> \E i \in 1 .. Len(items) : items[i] = id

\* C35: two spendInputs or readCoin calls on one view that interleave
\* where they wait for the store may both look the same outpoint up; the
\* view then has exactly one entry at the outpoint, the assertion of
\* Coins.add is never hit, no outpoint is spent by both calls, and the undo
\* stack holds each spent entry once
C35_OneEntryAfterBothLookups ==
  /\ NoDoubleInsertOrSpend
  /\ \A o \in Outpoints :
       BothLookedUp(o, StoreCoins) => CoinView_hasEntry(map, o)

\* C35 as amended: the view has exactly one entry at an outpoint both
\* calls got a spendable coin for, and none because of the lookups when
\* the coin was unspendable; the rest as stated
C35_InterleavedCallsAgree ==
  /\ []NoDoubleInsertOrSpend
  /\ [](\A o \in Outpoints :
         BothLookedUp(o, SpendableCoins) => CoinView_hasEntry(map, o))
  /\ [][(call.pc = "wait" /\ peer' = peer
          /\ isUnspendable(Last(call'.res)))
            => /\ heap' = heap
               /\ OccupiedSlots(map') = OccupiedSlots(map)]_vars

\* two spendInputs calls for the same transaction have both looked its
\* input up and both have returned: one spent it, the other spent nothing,
\* and the undo stack holds one entry
C35_Witness ==
  /\ call.op = "spendInputs"
  /\ peer.call.op = "spendInputs"
  /\ call.pc = "done"
  /\ peer.call.pc = "done"
  /\ call.tx = peer.call.tx
  /\ BothLookedUp(TXS[call.tx].inputs[1], SpendableCoins)
  /\ call.i = 0
  /\ peer.call.i = 1
  /\ Len(items) = 1
  /\ lookups[TXS[call.tx].inputs[1].hash] = 2

====
